---- MODULE Spec2Model ----
(***************************************************************************)
(* A model of breathes' hook runner (src/hooks.rs): the ecosystem          *)
(* registry, the detector, the hook catalog, verify (the per-ecosystem     *)
(* execution engine) and run_hooks (the parallel orchestrator).            *)
(*                                                                         *)
(* Language variants are the strings "Language::<Variant>"; their          *)
(* canonical names are produced by LanguageToString (impl Display) and     *)
(* parsed by LanguageFrom (impl From<String>).  Paths are sequences of     *)
(* path components.  An Option<i32> exit code is <<c>> (Some) or <<>>      *)
(* (None).                                                                 *)
(***************************************************************************)
EXTENDS Integers, Sequences, FiniteSets, TLC

(***************************************************************************)
(* State.                                                                  *)
(***************************************************************************)
VARIABLES
    windows,        \* cfg!(target_os = "windows") of the build
    cwd,            \* entries of the working directory (log tree excluded)
    dirs,           \* directories of the log tree that exist (paths)
    files,          \* log files that exist: path -> what was written to it
    call,           \* the entry point called: "run_hooks", "verify", ...
    arg,            \* the argument of the call (verify: its hooks)
    pc,             \* where the call is: "start", "par", "collected", "done"
    l,              \* run_hooks' l, the detected languages
    tasks,          \* one record per parallel closure / verify call
    results,        \* run_hooks' results, once collected
    ret,            \* what the entry point returned
    faults,         \* environment faults so far
    writes          \* writes of subprocesses to their log files so far

vars == << windows, cwd, dirs, files, call, arg, pc, l, tasks, results, ret, faults,
          writes >>

(***************************************************************************)
(* Bounds of the model.                                                    *)
(***************************************************************************)
\* Largest number of entries in the working directory.
MaxFiles == 2
\* Largest number of entries in a directory handed to detect alone.
MaxEntries == 3
\* Largest number of characters in the text of a commit summary, and of
\* whitespace characters before and after an input of a validator.
MaxSummary == 51
MaxPad == 1
\* Largest number of environment faults in one behaviour: hook subprocesses
\* that do not exit with code 0, spawn/wait errors, filesystem errors.
MaxFaults == 1

\* Largest number of writes the subprocesses make to their log files.
MaxWrites == 1

(***************************************************************************)
(* Registry: manifest file names and patterns (hooks.rs, the pub consts).  *)
(***************************************************************************)
CS_PROJ == "*.csproj"
MAVEN_POM == "pom.xml"
RUST_FILE == "Cargo.toml"
GO_FILE == "go.mod"
PHP_FILE == "composer.json"
NODE_FILE == "package.json"
CMAKE_FILE == "CMakeLists.txt"
ELIXIR_FILE == "mix.exs"
RUBY_FILE == "Gemfile"
DART_FILE == "pubspec.yaml"
KOTLIN_FILE == "settings.gradle.kts"
GRADLE_FILE == "settings.gradle"
SWIFT_FILE == "Package.swift"
PYTHON_FILE == "requirements.txt"
TYPESCRIPT_FILE == "tsconfig.json"
HASKELL_FILE == "*.cabal"
D_FILE == "dub.json"

\* enum Language, in declaration order.
Language ==
    << "Language::Unknown", "Language::R", "Language::Javascript",
       "Language::Typescript", "Language::Haskell", "Language::D",
       "Language::Rust", "Language::Python", "Language::Go", "Language::Php",
       "Language::Ruby", "Language::CMake", "Language::CSharp",
       "Language::Maven", "Language::Kotlin", "Language::Gradle",
       "Language::Swift", "Language::Dart", "Language::Elixir" >>

Range(s) == { s[k] : k \in DOMAIN s }

Languages == Range(Language)

\* impl From<String> for Language.
LanguageFrom(value) ==
    IF value = "Javascript" THEN "Language::Javascript"
    ELSE IF value = "Typescript" THEN "Language::Typescript"
    ELSE IF value = "Rust" THEN "Language::Rust"
    ELSE IF value = "Python" THEN "Language::Python"
    ELSE IF value = "Go" THEN "Language::Go"
    ELSE IF value = "Php" THEN "Language::Php"
    ELSE IF value = "Ruby" THEN "Language::Ruby"
    ELSE IF value = "CMake" THEN "Language::CMake"
    ELSE IF value = "CSharp" THEN "Language::CSharp"
    ELSE IF value = "Maven" THEN "Language::Maven"
    ELSE IF value = "Kotlin" THEN "Language::Kotlin"
    ELSE IF value = "Gradle" THEN "Language::Gradle"
    ELSE IF value = "Swift" THEN "Language::Swift"
    ELSE IF value = "Dart" THEN "Language::Dart"
    ELSE IF value = "Elixir" THEN "Language::Elixir"
    ELSE IF value = "D" THEN "Language::D"
    ELSE IF value = "Haskell" THEN "Language::Haskell"
    ELSE "Language::Unknown"

\* Language::get_file.
get_file(language) ==
    CASE language = "Language::Javascript" -> NODE_FILE
      [] language = "Language::Typescript" -> TYPESCRIPT_FILE
      [] language = "Language::Haskell" -> HASKELL_FILE
      [] language = "Language::Rust" -> RUST_FILE
      [] language = "Language::Python" -> PYTHON_FILE
      [] language = "Language::Go" -> GO_FILE
      [] language = "Language::Php" -> PHP_FILE
      [] language = "Language::Ruby" -> RUBY_FILE
      [] language = "Language::CMake" -> CMAKE_FILE
      [] language = "Language::CSharp" -> CS_PROJ
      [] language = "Language::Maven" -> MAVEN_POM
      [] language = "Language::Kotlin" -> KOTLIN_FILE
      [] language = "Language::Gradle" -> GRADLE_FILE
      [] language = "Language::Swift" -> SWIFT_FILE
      [] language = "Language::Dart" -> DART_FILE
      [] language = "Language::Elixir" -> ELIXIR_FILE
      [] language = "Language::D" -> D_FILE
      [] language \in {"Language::R", "Language::Unknown"} -> ""

\* The registry with the Rust rule listed a second time at its end.
LANGUAGES_RustTwice ==
    << <<"Language::Rust", RUST_FILE>>,
       <<"Language::Typescript", TYPESCRIPT_FILE>>,
       <<"Language::Haskell", HASKELL_FILE>>,
       <<"Language::Javascript", NODE_FILE>>,
       <<"Language::CSharp", CS_PROJ>>,
       <<"Language::Maven", MAVEN_POM>>,
       <<"Language::Go", GO_FILE>>,
       <<"Language::Ruby", RUBY_FILE>>,
       <<"Language::Dart", DART_FILE>>,
       <<"Language::Gradle", GRADLE_FILE>>,
       <<"Language::Kotlin", KOTLIN_FILE>>,
       <<"Language::Swift", SWIFT_FILE>>,
       <<"Language::Php", PHP_FILE>>,
       <<"Language::CMake", CMAKE_FILE>>,
       <<"Language::Elixir", ELIXIR_FILE>>,
       <<"Language::Python", PYTHON_FILE>>,
       <<"Language::Rust", RUST_FILE>> >>

\* pub const LANGUAGES: the detection rules, in registry order.
LANGUAGES ==
    << <<"Language::Rust", RUST_FILE>>,
       <<"Language::Typescript", TYPESCRIPT_FILE>>,
       <<"Language::Haskell", HASKELL_FILE>>,
       <<"Language::Javascript", NODE_FILE>>,
       <<"Language::CSharp", CS_PROJ>>,
       <<"Language::Maven", MAVEN_POM>>,
       <<"Language::Go", GO_FILE>>,
       <<"Language::Ruby", RUBY_FILE>>,
       <<"Language::Dart", DART_FILE>>,
       <<"Language::Gradle", GRADLE_FILE>>,
       <<"Language::Kotlin", KOTLIN_FILE>>,
       <<"Language::Swift", SWIFT_FILE>>,
       <<"Language::Php", PHP_FILE>>,
       <<"Language::CMake", CMAKE_FILE>>,
       <<"Language::Elixir", ELIXIR_FILE>>,
       <<"Language::Python", PYTHON_FILE>> >>

\* impl Display for Language.
LanguageToString(language) ==
    CASE language = "Language::Javascript" -> "Javascript"
      [] language = "Language::Typescript" -> "Typescript"
      [] language = "Language::Rust" -> "Rust"
      [] language = "Language::Python" -> "Python"
      [] language = "Language::Go" -> "Go"
      [] language = "Language::Php" -> "Php"
      [] language = "Language::Ruby" -> "Ruby"
      [] language = "Language::CMake" -> "CMake"
      [] language = "Language::CSharp" -> "CSharp"
      [] language = "Language::Maven" -> "Maven"
      [] language = "Language::Kotlin" -> "Kotlin"
      [] language = "Language::Gradle" -> "Gradle"
      [] language = "Language::Swift" -> "Swift"
      [] language = "Language::Dart" -> "Dart"
      [] language = "Language::Elixir" -> "Elixir"
      [] language = "Language::D" -> "D"
      [] language = "Language::Unknown" -> "Unknown"
      [] language = "Language::Haskell" -> "Haskell"
      [] language = "Language::R" -> "R"

(***************************************************************************)
(* Hook catalog (struct Hook and impl Hook).                               *)
(***************************************************************************)
\* struct Hook.
H(language, description, success, failure, file, command) ==
    [ language |-> language, description |-> description, success |-> success,
      failure |-> failure, file |-> file, command |-> command ]

Hook_d ==
    << H("Language::D", "Building your project", "Build successful", "Build failed", "build.log", "dub build"),
       H("Language::D", "Testing your project", "Tests passed", "Tests failed", "test.log", "dub test") >>

\* Hook::haskell left as a stub that pushes nothing.
Hook_haskell_Stub == << >>

Hook_haskell ==
    << H("Language::Haskell", "Checking for outdated packages in your project", "No outdated packages found", "Outdated packages found", "outdated.log", "cabal outdated"),
       H("Language::Haskell", "Running tests for your Haskell project", "Tests passed", "Tests failed", "test.log", "cabal test") >>

Hook_javascript ==
    << H("Language::Javascript", "Checking for outdated packages in your project", "No outdated packages found", "Outdated packages found", "outdated.log", "npm outdated"),
       H("Language::Javascript", "Testing your project", "Tests passed", "Tests failed", "test.log", "npm run test"),
       H("Language::Javascript", "Auditing your project", "No vulnerabilities found", "Vulnerabilities found", "audit.log", "npm audit"),
       H("Language::Javascript", "Checking for code formatting in your project", "Linting passed", "Lint error found", "lint.log", "npm run lint") >>

(* Hook::typescript: first pushes the Javascript hooks, then its own two. *)
Hook_typescript ==
    Hook_javascript \o
    << H("Language::Typescript", "Checking for types", "Types are valid", "Type errors found", "types.log", "npx tsc --noEmit"),
       H("Language::Typescript", "Checking for code formatting in your project", "Code is formatted correctly", "Code formatting issues found", "fmt.log", "npx prettier --check .") >>

Hook_maven ==
    << H("Language::Maven", "Checking for security vulnerabilities", "No vulnerabilities found", "Vulnerabilities found", "audit.log", "mvn dependency-check:check"),
       H("Language::Maven", "Running tests for your Maven project", "Tests passed", "Tests failed", "test.log", "mvn test"),
       H("Language::Maven", "Checking for outdated packages in your project", "No outdated packages found", "Outdated packages found", "outdated.log", "mvn versions:display-dependency-updates") >>

(* Hook::gradle: the wrapper command is chosen by cfg!(target_os = "windows"). *)
Hook_gradle(win) ==
    IF win
    THEN << H("Language::Gradle", "Building your application", "Build successful", "Build failed", "build.log", "gradlew.bat build"),
         H("Language::Gradle", "Running unit test", "Test passed", "Test failed", "test.log", "gradlew.bat test") >>
    ELSE << H("Language::Gradle", "Building your application", "Build successful", "Build failed", "build.log", "gradlew build"),
         H("Language::Gradle", "Running unit test", "Test passed", "Test failed", "test.log", "gradlew test") >>

Hook_rust ==
    << H("Language::Rust", "Checking the configuration", "Project is valid", "Project not valid", "project.log", "cargo verify-project"),
       H("Language::Rust", "Checking build capability", "Can build the project", "Cargo check detect failure", "check.log", "cargo check"),
       H("Language::Rust", "Checking for security vulnerabilities", "No vulnerabilities found", "Vulnerabilities found", "audit.log", "cargo audit"),
       H("Language::Rust", "Checks for formatting issues in your Rust code", "Code format standard respected", "Code format standard not respected", "fmt.log", "cargo fmt --check"),
       H("Language::Rust", "Checks for linting issues and suggests code improvements", "No warnings found", "Warnings found", "clippy.log", "cargo clippy -- -D clippy::all -W warnings -D clippy::pedantic -D clippy::nursery -A clippy::multiple_crate_versions"),
       H("Language::Rust", "Testing your project", "Tests passed", "Tests failed", "test.log", "cargo test --no-fail-fast"),
       H("Language::Rust", "Generating documentation for your project", "Documentation generated", "Failed to generate documentation", "doc.log", "cargo doc --no-deps --document-private-items"),
       H("Language::Rust", "Checking for outdated packages in your project", "No outdated packages found", "Outdated packages found", "outdated.log", "cargo outdated") >>

Hook_python ==
    << H("Language::Python", "Checking for outdated packages in your project", "No outdated packages found", "Outdated packages found", "outdated.log", "pip list --outdated"),
       H("Language::Python", "Checking for security vulnerabilities", "No vulnerabilities found", "Vulnerabilities found", "audit.log", "pip audit") >>

\* Hook::go with both hooks logging to test.log.
Hook_go_OneLogFile ==
    << H("Language::Go", "Testing your project", "Tests passed", "Tests failed", "test.log", "go test -v"),
       H("Language::Go", "Checking for security vulnerabilities", "No vulnerabilities found", "Vulnerabilities found", "test.log", "go list -u -m -json all") >>

\* Hook::go with its two pushes in the other order.
Hook_go_AuditFirst ==
    << H("Language::Go", "Checking for security vulnerabilities", "No vulnerabilities found", "Vulnerabilities found", "audit.log", "go list -u -m -json all"),
       H("Language::Go", "Testing your project", "Tests passed", "Tests failed", "test.log", "go test -v") >>

Hook_go ==
    << H("Language::Go", "Testing your project", "Tests passed", "Tests failed", "test.log", "go test -v"),
       H("Language::Go", "Checking for security vulnerabilities", "No vulnerabilities found", "Vulnerabilities found", "audit.log", "go list -u -m -json all") >>

Hook_php ==
    << H("Language::Php", "Checking platform requirements", "All requirements are met", "Missing requirements found", "reqs.log", "composer check-platform-reqs"),
       H("Language::Php", "Checking for security vulnerabilities", "No vulnerabilities found", "Vulnerabilities found", "audit.log", "composer audit"),
       H("Language::Php", "Checking outdated packages", "No outdated packages found", "Outdated packages found", "outdated.log", "composer outdated"),
       H("Language::Php", "Running tests for your PHP project", "Tests passed", "Tests failed", "test.log", "composer run test") >>

Hook_ruby ==
    << H("Language::Ruby", "Checking for outdated gems", "No outdated gems found", "Outdated gems found", "outdated.log", "bundle outdated"),
       H("Language::Ruby", "Checking for security vulnerabilities", "No vulnerabilities found", "Vulnerabilities found", "audit.log", "bundle audit"),
       H("Language::Ruby", "Running tests for your Ruby project", "Tests passed", "Tests failed", "test.log", "bundle exec rspec") >>

Hook_cmake ==
    << H("Language::CMake", "Generating build configuration", "Configuration generated successfully", "Configuration failed", "cmake.log", "cmake -S . -B build"),
       H("Language::CMake", "Compiling the project", "Build successful", "Build failed", "build.log", "cmake --build build"),
       H("Language::CMake", "Running tests", "All tests passed", "Tests failed", "test.log", "ctest --test-dir build --output-on-failure") >>

Hook_csharp ==
    << H("Language::CSharp", "Checking for code formatting", "Code formatting is correct", "Code formatting issues found", "format.log", "dotnet format --verify-no-changes"),
       H("Language::CSharp", "Running unit tests", "All tests passed", "Some tests failed", "test.log", "dotnet test"),
       H("Language::CSharp", "Building the project", "Build successful", "Build failed", "build.log", "dotnet build"),
       H("Language::CSharp", "Checking for dependency updates", "Dependencies are up to date", "Dependency updates available", "deps.log", "dotnet restore"),
       H("Language::CSharp", "Checking for security vulnerabilities", "No vulnerabilities found", "Vulnerabilities found", "audit.log", "dotnet audit") >>

Hook_swift ==
    << H("Language::Swift", "Checking for code formatting", "Code formatting is correct", "Code formatting issues found", "format.log", "swiftformat --lint ."),
       H("Language::Swift", "Running unit tests", "All tests passed", "Some tests failed", "test.log", "swift test"),
       H("Language::Swift", "Checking for security vulnerabilities", "No vulnerabilities found", "Vulnerabilities found", "audit.log", "swift package audit"),
       H("Language::Swift", "Building the project", "Build successful", "Build failed", "build.log", "swift build"),
       H("Language::Swift", "Running integration tests", "All integration tests passed", "Some integration tests failed", "integration.log", "swift test --parallel") >>

Hook_dart ==
    << H("Language::Dart", "Checking for code formatting", "Code formatting is correct", "Code formatting issues found", "format.log", "dart format --set-exit-if-changed"),
       H("Language::Dart", "Running unit tests", "All tests passed", "Some tests failed", "test.log", "dart test"),
       H("Language::Dart", "Checking for security vulnerabilities", "No vulnerabilities found", "Vulnerabilities found", "audit.log", "dart pub audit"),
       H("Language::Dart", "Building the project", "Build successful", "Build failed", "build.log", "dart compile exe bin/main.dart") >>

Hook_kotlin ==
    << H("Language::Kotlin", "Running unit tests", "All tests passed", "Some tests failed", "test.log", "gradle test") >>

Hook_elixir ==
    << H("Language::Elixir", "Checking for code formatting", "Code formatting is correct", "Code formatting issues found", "format.log", "mix format --check-formatted"),
       H("Language::Elixir", "Running unit tests", "All tests passed", "Some tests failed", "test.log", "mix test"),
       H("Language::Elixir", "Generating documentation", "Documentation generated successfully", "Documentation generation failed", "docs.log", "mix docs"),
       H("Language::Elixir", "Checking for security vulnerabilities", "No vulnerabilities found", "Vulnerabilities found", "audit.log", "mix audit"),
       H("Language::Elixir", "Building the project", "Build successful", "Build failed", "build.log", "mix compile") >>

\* Hook::get choosing the Gradle wrapper by looking for gradlew.bat in the
\* working directory, in place of the build's cfg!(target_os = "windows").
Hook_get_WrapperInDirectory(language, win) ==
    CASE language \in {"Language::Unknown", "Language::R"} -> << >>
      [] language = "Language::Kotlin" -> Hook_kotlin
      [] language = "Language::Typescript" -> Hook_typescript
      [] language = "Language::D" -> Hook_d
      [] language = "Language::Haskell" -> Hook_haskell
      [] language = "Language::Maven" -> Hook_maven
      [] language = "Language::Gradle" ->
            Hook_gradle(\E e \in cwd : e.stem = "gradlew" /\ e.ext = ".bat")
      [] language = "Language::Javascript" -> Hook_javascript
      [] language = "Language::Rust" -> Hook_rust
      [] language = "Language::Python" -> Hook_python
      [] language = "Language::Go" -> Hook_go
      [] language = "Language::Php" -> Hook_php
      [] language = "Language::Ruby" -> Hook_ruby
      [] language = "Language::CMake" -> Hook_cmake
      [] language = "Language::CSharp" -> Hook_csharp
      [] language = "Language::Swift" -> Hook_swift
      [] language = "Language::Dart" -> Hook_dart
      [] language = "Language::Elixir" -> Hook_elixir

\* Hook::get.
Hook_get(language, win) ==
    CASE language \in {"Language::Unknown", "Language::R"} -> << >>
      [] language = "Language::Kotlin" -> Hook_kotlin
      [] language = "Language::Typescript" -> Hook_typescript
      [] language = "Language::D" -> Hook_d
      [] language = "Language::Haskell" -> Hook_haskell
      [] language = "Language::Maven" -> Hook_maven
      [] language = "Language::Gradle" -> Hook_gradle(win)
      [] language = "Language::Javascript" -> Hook_javascript
      [] language = "Language::Rust" -> Hook_rust
      [] language = "Language::Python" -> Hook_python
      [] language = "Language::Go" -> Hook_go
      [] language = "Language::Php" -> Hook_php
      [] language = "Language::Ruby" -> Hook_ruby
      [] language = "Language::CMake" -> Hook_cmake
      [] language = "Language::CSharp" -> Hook_csharp
      [] language = "Language::Swift" -> Hook_swift
      [] language = "Language::Dart" -> Hook_dart
      [] language = "Language::Elixir" -> Hook_elixir

(***************************************************************************)
(* Working directory and detector (add_if_exists, detect).                 *)
(* A directory entry is [stem, ext, kind]: its name is stem \o ext and     *)
(* kind is "file" (a regular file) or "dir".                               *)
(***************************************************************************)
Entry(stem, ext, kind) == [ stem |-> stem, ext |-> ext, kind |-> kind ]

Name(e) == e.stem \o e.ext

\* The entries a working directory of the model is drawn from.
CwdUniverse ==
    { Entry("go", ".mod", "file"),
      Entry("a", ".cabal", "file"),
      Entry("app", ".csproj", "dir"),
      Entry("README", ".md", "file") }

\* The working directories of the model: up to MaxFiles entries of the
\* universe, a Haskell project with two .cabal files, a TypeScript project
\* and a Gradle project.
WorkingDirectories ==
    { d \in SUBSET CwdUniverse : Cardinality(d) <= MaxFiles }
        \cup { { Entry("a", ".cabal", "file"), Entry("b", ".cabal", "file") },
               { Entry("tsconfig", ".json", "file") },
               { Entry("settings", ".gradle", "file") } }

\* The working directories run_hooks is run in on a Windows build, where
\* only the shell and the Gradle wrapper differ: no project, a Go project
\* and a Gradle project.
WindowsDirectories ==
    { { },
      { Entry("go", ".mod", "file") },
      { Entry("settings", ".gradle", "file") } }

\* The working directories a second call of Hook::get is made in, after
\* the first was made in an empty one: a Gradle project with the wrapper
\* scripts of both platforms, and a Go project.
HookGetDirectories ==
    { { Entry("settings", ".gradle", "file"),
        Entry("gradlew", "", "file"),
        Entry("gradlew", ".bat", "file") },
      { Entry("go", ".mod", "file") } }

\* The entries a directory scanned by a direct call of detect is drawn
\* from: manifests of several rules, two more *.csproj files, directories
\* carrying a manifest's name, D's manifest (no rule names it) and a file
\* whose name is three asterisks.
DetectUniverse ==
    CwdUniverse \cup
        { Entry("b", ".cabal", "file"),
          Entry("Cargo", ".toml", "file"),
          Entry("package", ".json", "file"),
          Entry("tsconfig", ".json", "file"),
          Entry("lib", ".csproj", "file"),
          Entry("web", ".csproj", "file"),
          Entry("requirements", ".txt", "file"),
          Entry("pom", ".xml", "dir"),
          Entry("dub", ".json", "file"),
          Entry("***", "", "file") }

DetectDirectories ==
    { d \in SUBSET DetectUniverse : Cardinality(d) <= MaxEntries }

\* Direct calls of add_if_exists: registry patterns and a malformed one,
\* glob and plain languages, an empty and a non-empty vec, in directories
\* of up to MaxFiles entries.
ProbeUniverse ==
    { Entry("go", ".mod", "file"),
      Entry("a", ".cabal", "file"),
      Entry("app", ".csproj", "dir"),
      Entry("lib", ".csproj", "file"),
      Entry("***", "", "file") }

ProbeDirectories ==
    { d \in SUBSET ProbeUniverse : Cardinality(d) <= MaxFiles }

AddIfExistsInputs ==
    [ file : { CS_PROJ, HASKELL_FILE, GO_FILE, "***" },
      language : { "Language::CSharp", "Language::Haskell", "Language::Go" },
      vec : { << >>, << "Language::Rust" >> } ]

\* Reading a directory: its entries one after another.  The order in which
\* the operating system yields them is unspecified: any order, and not
\* necessarily the same on every reading.
read_dir(dir) ==
    { listing \in [ 1..Cardinality(dir) -> dir ] :
          \A e \in dir : \E k \in DOMAIN listing : listing[k] = e }

Entries(listing) == { listing[k] : k \in DOMAIN listing }

\* Path::is_file on a name relative to the working directory.
is_file(file, dir) == \E e \in dir : Name(e) = file /\ e.kind = "file"

\* Patterns glob::glob rejects with a PatternError: more than two
\* asterisks in a row.
MalformedPatterns == { "***" }

\* glob::glob on the registry's patterns: "*<suffix>" matches every entry
\* whose name ends with <suffix>; a pattern without wildcard matches the
\* entry of that name.  The result is Ok(paths) for a well-formed pattern
\* and Err for a malformed one.
GlobSuffix(pattern) ==
    CASE pattern = CS_PROJ -> ".csproj"
      [] pattern = HASKELL_FILE -> ".cabal"
      [] OTHER -> ""

\* The file names of the model in the order glob sorts by (byte order).
FileNames ==
    << "***", "Cargo.toml", "README.md", "a.cabal", "app.csproj", "b.cabal",
       "dub.json", "go.mod", "gradlew", "gradlew.bat", "lib.csproj", "package.json", "pom.xml",
       "requirements.txt", "settings.gradle", "tsconfig.json", "web.csproj" >>

Rank(name) == CHOOSE k \in DOMAIN FileNames : FileNames[k] = name

\* The paths glob yields: the entries it read that match, sorted by name.
glob(pattern, listing) ==
    IF pattern \in MalformedPatterns
    THEN [ ok |-> FALSE, paths |-> << >> ]
    ELSE [ ok |-> TRUE,
           paths |->
             SortSeq(
                 SelectSeq(listing,
                     LAMBDA e : IF GlobSuffix(pattern) # ""
                                THEN e.ext = GlobSuffix(pattern)
                                ELSE Name(e) = pattern),
                 LAMBDA a, b : Rank(Name(a)) < Rank(Name(b))) ]

Repeat(x, n) == [ k \in 1..n |-> x ]

\* `for file in files`: a push for every path that is a regular file.
RECURSIVE push_files(_, _, _)
push_files(paths, language, vec) ==
    IF paths = << >> THEN vec
    ELSE push_files(Tail(paths), language,
             IF Head(paths).kind = "file" THEN Append(vec, language) ELSE vec)

\* add_if_exists pushing for every path the glob yields, without is_file().
add_if_exists_NoIsFile(file, language, vec, listing) ==
    IF language = "Language::CSharp" /\ glob(file, listing).ok
    THEN vec \o Repeat(language, Len(glob(file, listing).paths))
    ELSE IF language = "Language::Haskell" /\ glob(file, listing).ok
    THEN vec \o Repeat(language, Len(glob(file, listing).paths))
    ELSE IF is_file(file, Entries(listing))
    THEN Append(vec, language)
    ELSE vec

\* add_if_exists: the languages pushed onto vec, in a working directory
\* that is read as listing.
add_if_exists(file, language, vec, listing) ==
    IF language = "Language::CSharp" /\ glob(file, listing).ok
    THEN push_files(glob(file, listing).paths, language, vec)
    ELSE IF language = "Language::Haskell" /\ glob(file, listing).ok
    THEN push_files(glob(file, listing).paths, language, vec)
    ELSE IF is_file(file, Entries(listing))
    THEN Append(vec, language)
    ELSE vec

RECURSIVE detect_from(_, _, _)
detect_from(k, all, listing) ==
    IF k > Len(LANGUAGES) THEN all
    ELSE detect_from(k + 1,
             add_if_exists(LANGUAGES[k][2], LANGUAGES[k][1], all, listing),
             listing)

\* A detector that scans the directory once and records, for every entry
\* in the order it is read, the ecosystems whose rules the entry matches.
RECURSIVE detect_entries(_, _, _)
detect_entries(k, all, listing) ==
    IF k > Len(listing) THEN all
    ELSE detect_entries(k + 1, detect_from(1, all, << listing[k] >>), listing)

detect_ByEntry(listing) == detect_entries(1, << >>, listing)

\* detect, in a working directory that is read as listing.
detect(listing) == detect_from(1, << >>, listing)

(***************************************************************************)
(* Inputs of a direct call of verify: catalog lists and hand-built lists.  *)
(***************************************************************************)
UnknownHook ==
    H("Language::Unknown", "Doing nothing", "Done", "Not done", "none.log", "true")

VerifyInputs ==
    { << >>,
      Hook_go,
      Hook_kotlin,
      Hook_d,
      << UnknownHook >>,
      << UnknownHook, Hook_go[1] >>,
      << Hook_go[1], UnknownHook, Hook_go[2] >>,
      << Hook_go[1], Hook_kotlin[1] >>,
      Hook_gradle(FALSE) }

\* Strings handed to Language::from: the canonical name of every variant
\* and strings that are no variant's name.
CanonicalNames == { LanguageToString(language) : language \in Languages }

Names ==
    CanonicalNames \cup { "", "go", "Go ", "Java", "Language::Go", "unknown" }

(***************************************************************************)
(* Validators (validator.rs).  A &str is the sequence of its characters;   *)
(* "U+00E9" stands for the character e-acute, two bytes long in UTF-8.      *)
(***************************************************************************)
\* pub const VALID_TYPES.
VALID_TYPES ==
    << << "f", "e", "a", "t" >>,
       << "f", "i", "x" >>,
       << "d", "o", "c", "s" >>,
       << "s", "t", "y", "l", "e" >>,
       << "r", "e", "f", "a", "c", "t", "o", "r" >>,
       << "p", "e", "r", "f" >>,
       << "t", "e", "s", "t" >>,
       << "c", "h", "o", "r", "e" >>,
       << "c", "i" >>,
       << "b", "u", "i", "l", "d" >> >>

\* const MAX_LENGTH of validate_summary_length.
MAX_LENGTH == 50

\* Characters str::trim removes (char::is_whitespace, the White_Space
\* property): U+0009..U+000D, the space, and the Unicode spaces, written
\* "U+<code point>" where TLA+ has no escape for them.
Whitespace ==
    { "\t", "\n", "U+000B", "\f", "\r", " ", "U+0085", "U+00A0", "U+1680",
      "U+2000", "U+2001", "U+2002", "U+2003", "U+2004", "U+2005", "U+2006",
      "U+2007", "U+2008", "U+2009", "U+200A", "U+2028", "U+2029", "U+202F",
      "U+205F", "U+3000" }

\* Characters of the model that take two and three bytes in UTF-8
\* (U+0080..U+07FF and U+0800..U+FFFF); every other one is ASCII.
\* U+00E9 is e-acute and U+200B the zero width space, neither White_Space.
TwoByteChars == { "U+0085", "U+00A0", "U+00E9" }
ThreeByteChars ==
    { "U+1680", "U+2000", "U+2001", "U+2002", "U+2003", "U+2004", "U+2005",
      "U+2006", "U+2007", "U+2008", "U+2009", "U+200A", "U+200B", "U+2028",
      "U+2029", "U+202F", "U+205F", "U+3000" }

\* char::len_utf8.
len_utf8(ch) ==
    IF ch \in TwoByteChars THEN 2
    ELSE IF ch \in ThreeByteChars THEN 3
    ELSE 1

\* str::len: the length in bytes.
RECURSIVE str_len(_)
str_len(s) == IF s = << >> THEN 0 ELSE len_utf8(Head(s)) + str_len(Tail(s))

\* str::trim: leading and trailing whitespace removed.
RECURSIVE trim_start(_)
trim_start(s) ==
    IF s # << >> /\ Head(s) \in Whitespace THEN trim_start(Tail(s)) ELSE s

RECURSIVE trim_end(_)
trim_end(s) ==
    IF s # << >> /\ s[Len(s)] \in Whitespace
    THEN trim_end(SubSeq(s, 1, Len(s) - 1))
    ELSE s

trim(s) == trim_end(trim_start(s))

\* Runs of up to MaxPad characters of a line's usual padding (space, line
\* feed, carriage return), and every whitespace character by itself.
PadChars == { " ", "\n", "\r" }
PadRuns == UNION { [ 1..n -> PadChars ] : n \in 0..MaxPad }
Pads == PadRuns \cup { << ch >> : ch \in Whitespace }

\* Inputs of validate_summary_length: n times "a" and m times e-acute,
\* between two runs of whitespace.
SummaryInputs ==
    { before \o Repeat("a", n) \o Repeat("U+00E9", m) \o after :
        n \in 0..MaxSummary, m \in 0..2,
        before \in { << >>, << " " >> },
        after \in { << >>, << "\n" >>, << "\r" >>, << "\r", "\n" >>, << "U+3000" >> } }

\* Inputs of validate_commit_type: every valid type and texts that are none,
\* between two runs of whitespace.
CommitTypeTexts ==
    Range(VALID_TYPES) \cup
        { << >>,
          << "F", "e", "a", "t" >>,
          << "f", "e", " ", "a", "t" >>,
          << "f", "e", "a", "t", ":" >>,
          << "f", "e", "a" >>,
          << "f", "i", "x", "f", "i", "x" >>,
          << "f", "e", "a", "t", ",", " ", "f", "i", "x" >>,
          << "f", "e", "a", "t", "U+200B" >> }

CommitTypeInputs ==
    { before \o text \o after :
        before \in PadRuns, text \in CommitTypeTexts,
        after \in Pads \cup { << "\r", "\n" >> } }

None == [ kind |-> "None" ]
NoOutcome == [ spawn |-> "none", wait |-> "none", code |-> << >> ]
Ok(v) == [ kind |-> "Ok", val |-> v ]
Err(msg) == [ kind |-> "Err", msg |-> msg ]

\* A closure of run_hooks' parallel map (or a direct verify call) that has
\* not started yet.
NewTask(lang, hooks, at) ==
    [ lang |-> lang,        \* the closure's lang
      hooks |-> hooks,      \* verify's hooks
      pc |-> at,            \* position in the closure / in verify
      i |-> 1,              \* index of the hook the for loop is at
      status |-> << >>,     \* verify's status vector
      live |-> {},          \* hooks whose spawned shell has not exited
      log |-> << >>,        \* what this task did, in order
      last |-> NoOutcome,   \* outcome of the command ok() ran last
      res |-> None ]        \* verify's return value

Init ==
    /\ windows \in BOOLEAN
    /\ dirs = {}
    /\ files = [ p \in {} |-> {} ]
    /\ l = << >>
    /\ results = << >>
    /\ ret = None
    /\ faults = 0
    /\ writes = 0
    /\ \/ /\ call = "run_hooks"
          /\ arg = << >>
          /\ cwd \in WorkingDirectories
          /\ windows => cwd \in WindowsDirectories
          /\ pc = "start"
          /\ tasks = << >>
       \/ /\ call = "verify"
          /\ arg \in VerifyInputs
          /\ cwd = {}
          /\ pc = "par"
          /\ tasks = << NewTask("Language::Unknown", arg, "verify") >>
       \/ \* detect() in a working directory
          /\ call = "detect"
          /\ arg = << >>
          /\ cwd \in DetectDirectories
          /\ pc = "start"
          /\ tasks = << >>
       \/ \* add_if_exists(file, language, &mut vec) in a working directory
          /\ call = "add_if_exists"
          /\ arg \in AddIfExistsInputs
          /\ cwd \in ProbeDirectories
          /\ pc = "start"
          /\ tasks = << >>
       \/ \* Hook::get(language), called twice
          /\ call = "Hook::get"
          /\ arg \in Languages
          /\ cwd = {}
          /\ pc = "start"
          /\ tasks = << >>
       \/ \* validate_summary_length(input)
          /\ call = "validate_summary_length"
          /\ arg \in SummaryInputs
          /\ cwd = {}
          /\ pc = "start"
          /\ tasks = << >>
       \/ \* validate_commit_type(input)
          /\ call = "validate_commit_type"
          /\ arg \in CommitTypeInputs
          /\ cwd = {}
          /\ pc = "start"
          /\ tasks = << >>
       \/ \* Language::from(value)
          /\ call = "Language::from"
          /\ arg \in Names
          /\ cwd = {}
          /\ pc = "start"
          /\ tasks = << >>
       \/ \* Language::from(language.to_string())
          /\ call = "to_string"
          /\ arg \in Languages
          /\ cwd = {}
          /\ pc = "start"
          /\ tasks = << >>

(***************************************************************************)
(* Filesystem operations on the log tree.                                  *)
(***************************************************************************)
Prefixes(path, n) == { SubSeq(path, 1, k) : k \in 1..n }

\* The directory emptied before it is created (remove_dir_all followed by
\* create_dir_all): what was below it is gone.
create_dir_all_RemoveFirst(path, ds) ==
    { d \in ds : ~ (Len(path) < Len(d) /\ SubSeq(d, 1, Len(path)) = path) }
        \cup Prefixes(path, Len(path))

\* std::fs::create_dir_all succeeding: every missing ancestor and the
\* directory itself exist afterwards.
create_dir_all(path, ds) == ds \cup Prefixes(path, Len(path))

\* File::create succeeding: the file exists and is empty (created, or
\* truncated if it existed).
File_create(path, fs) ==
    [ p \in DOMAIN fs \cup {path} |-> IF p = path THEN {} ELSE fs[p] ]

\* A subprocess writing its output into the file it holds open.
Write(path, tag, fs) ==
    [ p \in DOMAIN fs |-> IF p = path THEN fs[p] \cup {tag} ELSE fs[p] ]

CanFault == faults < MaxFaults

(***************************************************************************)
(* verify: the per-ecosystem execution engine.                             *)
(***************************************************************************)
Root == << "breathes" >>

\* verify's base_path, stdout_dir and stderr_dir for the first hook's lang.
base_path(lang) == << "breathes", LanguageToString(lang) >>
stdout_dir(lang) == Append(base_path(lang), "stdout")
stderr_dir(lang) == Append(base_path(lang), "stderr")

\* err_file built from stdout_dir (both streams in one file).
err_file_InStdoutDir(lang, hook) == Append(stdout_dir(lang), hook.file)

\* out_file and err_file of a hook, under the directories of `lang`.
out_file(lang, hook) == Append(stdout_dir(lang), hook.file)
err_file(lang, hook) == Append(stderr_dir(lang), hook.file)

\* The wrapper script chosen when the command is run: on Windows verify
\* rewrites a gradlew command into its gradlew.bat form.
ShellCommand_WrapperAtExecution(hook, win) ==
    IF win
    THEN << "cmd", "/C",
            CASE hook.command = "gradlew build" -> "gradlew.bat build"
              [] hook.command = "gradlew test" -> "gradlew.bat test"
              [] OTHER -> hook.command >>
    ELSE << "sh", "-c", hook.command >>

\* The shell invocation verify builds for a hook.
ShellCommand(hook, win) ==
    IF win THEN << "cmd", "/C", hook.command >>
    ELSE << "sh", "-c", hook.command >>

\* What can happen to a hook's command: spawn and wait each succeed or fail
\* with an io::Error, and the exit status carries a code or none.
Outcome(spawn, wait, code) == [ spawn |-> spawn, wait |-> wait, code |-> code ]

SpawnFailed == Outcome("err", "none", << >>)
WaitFailed == Outcome("ok", "err", << >>)
Exited(code) == Outcome("ok", "ok", code)

\* The outcomes of a subprocess that was spawned.
WaitOutcomes == { Exited(<< 0 >>), Exited(<< 1 >>), Exited(<< >>), WaitFailed }

\* ok with a missing exit code read as 0 (status.code().unwrap_or(0)).
ok_MissingCodeIsZero(o, failure) ==
    IF o.spawn = "err" THEN Err("io")
    ELSE IF o.wait = "err" THEN Err("io")
    ELSE IF o.code \in { << 0 >>, << >> } THEN Ok(<< >>)
    ELSE Err(failure)

\* ok: Ok(()) iff spawn and wait succeeded and the status code is Some(0).
ok(o, failure) ==
    IF o.spawn = "err" THEN Err("io")
    ELSE IF o.wait = "err" THEN Err("io")
    ELSE IF o.code = << 0 >> THEN Ok(<< >>)
    ELSE Err(failure)

\* start.elapsed().as_secs() as verify sees it: 0, or 1 for any positive
\* number of whole seconds.
ElapsedSecs == { 0, 1 }

\* status.contains(&true) in place of !status.contains(&false).
all_succeeded_ContainsTrue(status) == TRUE \in Range(status)

\* !status.contains(&false)
all_succeeded(status) == ~ (FALSE \in Range(status))

\* The lang verify takes from the first hook.
first_lang(task) == task.hooks[1].language

TaskDone(task, res) == [ task EXCEPT !.pc = "done", !.res = res ]

Logged(task, events) == [ task EXCEPT !.log = @ \o events ]

\* The loop leaving at the first failed hook (a `break` on failure).
HookReported_ShortCircuit(task, o) ==
    LET hook == task.hooks[task.i]
        result == ok(o, hook.failure)
        line == [ e |-> "println", h |-> task.i,
                  mark |-> IF result.kind = "Ok" THEN "ok" ELSE "fail",
                  text |-> hook.description ]
    IN  [ Logged(task, << line >>) EXCEPT
            !.last = o,
            !.status = Append(@, result.kind # "Err"),
            !.i = IF result.kind = "Err" THEN Len(task.hooks) + 1 ELSE @ + 1,
            !.pc = "loop" ]

\* The end of one iteration of the for loop: the report line, pb.inc, the
\* push onto status, and on to the next hook.
HookReported(task, o) ==
    LET hook == task.hooks[task.i]
        result == ok(o, hook.failure)
        line == [ e |-> "println", h |-> task.i,
                  mark |-> IF result.kind = "Ok" THEN "ok" ELSE "fail",
                  text |-> hook.description ]
    IN  [ Logged(task, << line >>) EXCEPT
            !.last = o,
            !.status = Append(@, result.kind # "Err"),
            !.i = @ + 1,
            !.pc = "loop" ]

\* The command spawned and not waited for: the loop goes on at once.
HookSpawned_NoWait(task, argv) ==
    [ Logged(task, << [ e |-> "spawn", h |-> task.i, argv |-> argv ] >>) EXCEPT
        !.live = @ \cup {task.i},
        !.status = Append(@, TRUE),
        !.i = @ + 1,
        !.pc = "loop" ]

\* A subprocess was spawned: ok() goes on to wait for it.
HookSpawned(task, argv) ==
    [ Logged(task, << [ e |-> "spawn", h |-> task.i, argv |-> argv ] >>) EXCEPT
        !.live = @ \cup {task.i},
        !.pc = "wait" ]


\* A parallel map that stops handing out work once a closure has returned
\* an Err (the behaviour of a try_for_each / collect into a Result).
TaskMayRun_StopOnSiblingError(t) ==
    /\ pc = "par"
    /\ \A u \in DOMAIN tasks \ {t} : tasks[u].res.kind # "Err"

\* into_par_iter().map(..): between the start of the parallel map and its
\* collect, every closure runs whatever the other closures do.
TaskMayRun(t) == pc = "par"

\* The closure of the parallel map starts: Hook::get(lang), then verify.
TaskStart(t) ==
    /\ TaskMayRun(t)
    /\ tasks[t].pc = "idle"
    /\ tasks' = [ tasks EXCEPT ![t] =
                    [ @ EXCEPT !.hooks = Hook_get(tasks[t].lang, windows),
                               !.pc = "verify" ] ]
    /\ UNCHANGED << windows, arg, cwd, dirs, files, call, pc, l, results, ret, faults, writes >>

\* verify up to the for loop: create_dir_all("breathes"), the check of the
\* first hook, and the two log directories.  Any create_dir_all may fail.
VerifyPrepare(t) ==
    LET task == tasks[t]
        nodir(path) == [ e |-> "mkdir_err", path |-> path ]
    IN
    /\ TaskMayRun(t)
    /\ task.pc = "verify"
    /\ \/ \* create_dir_all("breathes") fails
          /\ CanFault
          /\ faults' = faults + 1
          /\ dirs' = dirs
          /\ tasks' = [ tasks EXCEPT ![t] =
                          TaskDone(Logged(task, << nodir(Root) >>), Err("io")) ]
       \/ \* no first hook: on to the final Ok
          /\ task.hooks = << >>
          /\ dirs' = create_dir_all(Root, dirs)
          /\ tasks' = [ tasks EXCEPT ![t] = [ task EXCEPT !.pc = "loop" ] ]
          /\ faults' = faults
       \/ \* the first hook's language is Unknown: return Ok((true, 0))
          /\ task.hooks # << >>
          /\ first_lang(task) = "Language::Unknown"
          /\ dirs' = create_dir_all(Root, dirs)
          /\ tasks' = [ tasks EXCEPT ![t] = TaskDone(task, Ok(<< TRUE, 0 >>)) ]
          /\ faults' = faults
       \/ \* both log directories are created
          /\ task.hooks # << >>
          /\ first_lang(task) # "Language::Unknown"
          /\ dirs' = create_dir_all(stderr_dir(first_lang(task)),
                        create_dir_all(stdout_dir(first_lang(task)),
                           create_dir_all(Root, dirs)))
          /\ tasks' = [ tasks EXCEPT ![t] = [ task EXCEPT !.pc = "loop" ] ]
          /\ faults' = faults
       \/ \* create_dir_all(&stdout_dir) fails, after creating n ancestors
          /\ task.hooks # << >>
          /\ first_lang(task) # "Language::Unknown"
          /\ CanFault
          /\ faults' = faults + 1
          /\ \E n \in 1..2 :
                dirs' = dirs \cup Prefixes(stdout_dir(first_lang(task)), n)
          /\ tasks' = [ tasks EXCEPT ![t] =
                TaskDone(Logged(task, << nodir(stdout_dir(first_lang(task))) >>),
                         Err("io")) ]
       \/ \* create_dir_all(&stderr_dir) fails
          /\ task.hooks # << >>
          /\ first_lang(task) # "Language::Unknown"
          /\ CanFault
          /\ faults' = faults + 1
          /\ dirs' = create_dir_all(stdout_dir(first_lang(task)),
                        create_dir_all(Root, dirs))
          /\ tasks' = [ tasks EXCEPT ![t] =
                TaskDone(Logged(task, << nodir(stderr_dir(first_lang(task))) >>),
                         Err("io")) ]
    /\ UNCHANGED << windows, arg, cwd, files, call, pc, l, results, ret, writes >>

\* The loop counting a hook whose language is Unknown as failed instead of
\* passing over it (status.push(false) before the continue).
HookSkip_CountsAsFailed(t) ==
    LET task == tasks[t] IN
    /\ TaskMayRun(t)
    /\ task.pc = "loop"
    /\ task.i <= Len(task.hooks)
    /\ task.hooks[task.i].language = "Language::Unknown"
    /\ tasks' = [ tasks EXCEPT ![t] =
                    [ Logged(task, << [ e |-> "skip", h |-> task.i ] >>)
                        EXCEPT !.i = @ + 1, !.status = Append(@, FALSE) ] ]
    /\ UNCHANGED << windows, arg, cwd, dirs, files, call, pc, l, results, ret, faults, writes >>

\* for hook in hooks: a hook whose language is Unknown is skipped.
HookSkip(t) ==
    LET task == tasks[t] IN
    /\ TaskMayRun(t)
    /\ task.pc = "loop"
    /\ task.i <= Len(task.hooks)
    /\ task.hooks[task.i].language = "Language::Unknown"
    /\ tasks' = [ tasks EXCEPT ![t] =
                    [ Logged(task, << [ e |-> "skip", h |-> task.i ] >>)
                        EXCEPT !.i = @ + 1 ] ]
    /\ UNCHANGED << windows, arg, cwd, dirs, files, call, pc, l, results, ret, faults, writes >>

\* File::create's error dropped (`.ok()` in place of `?`): the loop goes on
\* to the next File::create and to the command.
HookOpen_IgnoreCreateError(t) ==
    LET task == tasks[t]
        hook == task.hooks[task.i]
        out == out_file(first_lang(task), hook)
        made(path) == [ e |-> "create", h |-> task.i, path |-> path ]
        nofile(path) == [ e |-> "create_err", h |-> task.i, path |-> path ]
    IN
    /\ TaskMayRun(t)
    /\ task.pc = "loop"
    /\ task.i <= Len(task.hooks)
    /\ hook.language # "Language::Unknown"
    /\ \/ /\ files' = File_create(out, files)
          /\ tasks' = [ tasks EXCEPT ![t] =
                          [ Logged(task, << made(out) >>) EXCEPT !.pc = "open" ] ]
          /\ faults' = faults
       \/ /\ CanFault
          /\ faults' = faults + 1
          /\ files' = files
          /\ tasks' = [ tasks EXCEPT ![t] =
                          [ Logged(task, << nofile(out) >>) EXCEPT !.pc = "open" ] ]
    /\ UNCHANGED << windows, arg, cwd, dirs, call, pc, l, results, ret, writes >>

\* File::create(out_file)?: the hook's stdout log is created or emptied, or
\* the call fails and verify returns the error.
HookOpen(t) ==
    LET task == tasks[t]
        hook == task.hooks[task.i]
        out == out_file(first_lang(task), hook)
        made(path) == [ e |-> "create", h |-> task.i, path |-> path ]
        nofile(path) == [ e |-> "create_err", h |-> task.i, path |-> path ]
    IN
    /\ TaskMayRun(t)
    /\ task.pc = "loop"
    /\ task.i <= Len(task.hooks)
    /\ hook.language # "Language::Unknown"
    /\ \/ /\ files' = File_create(out, files)
          /\ tasks' = [ tasks EXCEPT ![t] =
                          [ Logged(task, << made(out) >>) EXCEPT !.pc = "open" ] ]
          /\ faults' = faults
       \/ /\ CanFault
          /\ faults' = faults + 1
          /\ files' = files
          /\ tasks' = [ tasks EXCEPT ![t] =
                          TaskDone(Logged(task, << nofile(out) >>), Err("io")) ]
    /\ UNCHANGED << windows, arg, cwd, dirs, call, pc, l, results, ret, writes >>

\* File::create(err_file)?: a second open() call, after that of the stdout
\* log; the stderr log is created or emptied, or the call fails and verify
\* returns the error.
HookOpenErr(t) ==
    LET task == tasks[t]
        hook == task.hooks[task.i]
        err == err_file(first_lang(task), hook)
        made(path) == [ e |-> "create", h |-> task.i, path |-> path ]
        nofile(path) == [ e |-> "create_err", h |-> task.i, path |-> path ]
    IN
    /\ TaskMayRun(t)
    /\ task.pc = "open"
    /\ \/ /\ files' = File_create(err, files)
          /\ tasks' = [ tasks EXCEPT ![t] =
                          [ Logged(task, << made(err) >>) EXCEPT !.pc = "spawn" ] ]
          /\ faults' = faults
       \/ /\ CanFault
          /\ faults' = faults + 1
          /\ files' = files
          /\ tasks' = [ tasks EXCEPT ![t] =
                          TaskDone(Logged(task, << nofile(err) >>), Err("io")) ]
    /\ UNCHANGED << windows, arg, cwd, dirs, call, pc, l, results, ret, writes >>

\* ok(): the command is spawned, or spawning fails and the hook has failed.
HookSpawn(t) ==
    LET task == tasks[t]
        hook == task.hooks[task.i]
    IN
    /\ TaskMayRun(t)
    /\ task.pc = "spawn"
    /\ \/ /\ tasks' = [ tasks EXCEPT ![t] =
                          HookSpawned(task, ShellCommand(hook, windows)) ]
          /\ faults' = faults
       \/ /\ CanFault
          /\ faults' = faults + 1
          /\ tasks' = [ tasks EXCEPT ![t] =
                HookReported(
                    Logged(task, << [ e |-> "spawn_err", h |-> task.i ] >>),
                    SpawnFailed) ]
    /\ UNCHANGED << windows, arg, cwd, dirs, files, call, pc, l, results, ret, writes >>

\* The hooks (by index) for which the task has spawned a subprocess.  A
\* subprocess was given the hook's two log files as its stdout and stderr;
\* it, or a process it left behind, can hold them open for good.
Spawned(task) ==
    { task.log[k].h : k \in { j \in DOMAIN task.log : task.log[j].e = "spawn" } }

Streams == { "out", "err" }

StreamFile(task, h, stream) ==
    IF stream = "out" THEN out_file(first_lang(task), task.hooks[h])
    ELSE err_file(first_lang(task), task.hooks[h])

\* A subprocess writes to one of its two streams: a step of its own, taken
\* or not, any number of times (MaxWrites in all in the model), at any time
\* after its spawn (a process left in the background writes after wait()
\* has returned), whatever verify and the closures of the parallel map do
\* meanwhile.
ChildWrite(t) ==
    LET task == tasks[t] IN
    /\ writes < MaxWrites
    /\ writes' = writes + 1
    /\ \E h \in Spawned(task), stream \in Streams :
          files' = Write(StreamFile(task, h, stream), << t, h >>, files)
    /\ UNCHANGED << windows, arg, cwd, dirs, call, pc, l, tasks, results, ret, faults >>

\* ok() giving up on a subprocess that has not exited (a wait with a
\* timeout): the hook is reported as failed and the subprocess is left
\* running.
HookWait_Timeout(t) ==
    LET task == tasks[t] IN
    /\ TaskMayRun(t)
    /\ task.pc = "wait"
    /\ faults' = faults
    /\ tasks' = [ tasks EXCEPT ![t] = HookReported(task, WaitFailed) ]
    /\ UNCHANGED << windows, arg, cwd, dirs, files, call, pc, l, results, ret, writes >>

\* A hook whose command did not succeed is run again (a retry loop around
\* ok()) instead of being reported.
HookWait_RetryFailed(t) ==
    LET task == tasks[t] IN
    /\ TaskMayRun(t)
    /\ task.pc = "wait"
    /\ \E o \in WaitOutcomes :
          /\ o # Exited(<< 0 >>) => CanFault
          /\ faults' = IF o = Exited(<< 0 >>) THEN faults ELSE faults + 1
          /\ tasks' = [ tasks EXCEPT ![t] =
                IF o = Exited(<< 0 >>)
                THEN HookReported(
                        [ Logged(task, << [ e |-> "exit", h |-> task.i ] >>)
                            EXCEPT !.live = @ \ {task.i} ],
                        o)
                ELSE [ Logged(task, << [ e |-> "exit", h |-> task.i ] >>)
                         EXCEPT !.live = @ \ {task.i}, !.pc = "spawn" ] ]
    /\ UNCHANGED << windows, arg, cwd, dirs, files, call, pc, l, results, ret, writes >>

\* ok(): wait() returns, whatever the subprocess has written: the spawned
\* shell has exited, and the result is classified and reported.
\* (wait() fails only once the child is no longer there to wait for.)
HookWait(t) ==
    LET task == tasks[t] IN
    /\ TaskMayRun(t)
    /\ task.pc = "wait"
    /\ \E o \in WaitOutcomes :
          /\ o # Exited(<< 0 >>) => CanFault
          /\ faults' = IF o = Exited(<< 0 >>) THEN faults ELSE faults + 1
          /\ tasks' = [ tasks EXCEPT ![t] =
                HookReported(
                    [ Logged(task, << [ e |-> "exit", h |-> task.i ] >>)
                        EXCEPT !.live = @ \ {task.i} ],
                    o) ]
    /\ UNCHANGED << windows, arg, cwd, dirs, files, call, pc, l, results, ret, writes >>

\* After the loop: Ok((!status.contains(&false), start.elapsed().as_secs())).
VerifyReturn(t) ==
    LET task == tasks[t] IN
    /\ TaskMayRun(t)
    /\ task.pc = "loop"
    /\ task.i > Len(task.hooks)
    /\ \E secs \in ElapsedSecs :
          tasks' = [ tasks EXCEPT ![t] =
                TaskDone(task, Ok(<< all_succeeded(task.status), secs >>)) ]
    /\ UNCHANGED << windows, arg, cwd, dirs, files, call, pc, l, results, ret, faults, writes >>

(***************************************************************************)
(* run_hooks: the orchestrator.                                            *)
(***************************************************************************)
NoLanguage == "No language detected"
ChecksFailed == "Checks failed. Check logs in ./breathes/"

\* run_hooks creating the log root before it looks at what was detected.
Detect_MkRoot ==
    /\ call = "run_hooks"
    /\ pc = "start"
    /\ \E listing \in read_dir(cwd) : l' = detect(listing)
    /\ dirs' = create_dir_all(Root, dirs)
    /\ IF l' = << >>
       THEN /\ ret' = Err(NoLanguage)
            /\ pc' = "done"
            /\ tasks' = tasks
       ELSE /\ ret' = ret
            /\ pc' = "par"
            /\ tasks' = [ k \in 1..Len(l') |-> NewTask(l'[k], << >>, "idle") ]
    /\ UNCHANGED << windows, arg, cwd, files, call, results, faults, writes >>

\* run_hooks up to the parallel map: detect, and the early return.
Detect ==
    /\ call = "run_hooks"
    /\ pc = "start"
    /\ \E listing \in read_dir(cwd) : l' = detect(listing)
    /\ IF l' = << >>
       THEN /\ ret' = Err(NoLanguage)
            /\ pc' = "done"
            /\ tasks' = tasks
       ELSE /\ ret' = ret
            /\ pc' = "par"
            /\ tasks' = [ k \in 1..Len(l') |-> NewTask(l'[k], << >>, "idle") ]
    /\ UNCHANGED << windows, arg, cwd, dirs, files, call, results, faults, writes >>

\* A join that returns at the first closure to finish.
AllFinished_First == \E t \in DOMAIN tasks : tasks[t].pc = "done"

\* collect() of the parallel map returns once every closure has returned.
AllFinished == \A t \in DOMAIN tasks : tasks[t].pc = "done"

\* The results collected into a map keyed by language: one entry per
\* distinct ecosystem, that of its first task.
Collect_ByLanguage ==
    /\ call = "run_hooks"
    /\ pc = "par"
    /\ AllFinished
    /\ LET firsts == { k \in DOMAIN tasks :
                          \A j \in 1..(k - 1) : tasks[j].lang # tasks[k].lang }
           nth(n) == CHOOSE k \in firsts :
                          Cardinality({ j \in firsts : j < k }) = n - 1
       IN  results' = [ n \in 1..Cardinality(firsts) |->
                          << tasks[nth(n)].lang, tasks[nth(n)].res >> ]
    /\ pc' = "collected"
    /\ UNCHANGED << windows, arg, cwd, dirs, files, call, l, tasks, ret, faults, writes >>

\* The results gathered as the closures finish (each pushing its pair onto
\* a shared vector): any order of the pairs can come out.
Collect_CompletionOrder ==
    /\ call = "run_hooks"
    /\ pc = "par"
    /\ AllFinished
    /\ \E order \in Permutations(DOMAIN tasks) :
          results' = [ k \in DOMAIN tasks |->
                         << tasks[order[k]].lang, tasks[order[k]].res >> ]
    /\ pc' = "collected"
    /\ UNCHANGED << windows, arg, cwd, dirs, files, call, l, tasks, ret, faults, writes >>

Collect ==
    /\ call = "run_hooks"
    /\ pc = "par"
    /\ AllFinished
    /\ results' = [ k \in DOMAIN tasks |-> << tasks[k].lang, tasks[k].res >> ]
    /\ pc' = "collected"
    /\ UNCHANGED << windows, arg, cwd, dirs, files, call, l, tasks, ret, faults, writes >>

\* The loop over results: any Ok((false, _)) or Err clears global_success.
RECURSIVE global_success_from(_, _, _)
global_success_from(k, rs, acc) ==
    IF k > Len(rs) THEN acc
    ELSE LET res == rs[k][2]
         IN  global_success_from(k + 1, rs,
                 IF res.kind = "Ok"
                 THEN (IF ~ res.val[1] THEN FALSE ELSE acc)
                 ELSE FALSE)

\* The loop with the Err arm leaving global_success as it is.
RECURSIVE global_success_IgnoreErr_from(_, _, _)
global_success_IgnoreErr_from(k, rs, acc) ==
    IF k > Len(rs) THEN acc
    ELSE LET res == rs[k][2]
         IN  global_success_IgnoreErr_from(k + 1, rs,
                 IF res.kind = "Ok"
                 THEN (IF ~ res.val[1] THEN FALSE ELSE acc)
                 ELSE acc)

global_success_IgnoreErr(rs) == global_success_IgnoreErr_from(1, rs, TRUE)

global_success(rs) == global_success_from(1, rs, TRUE)

\* The words of the texts run_hooks returns in its Err.
ErrorWords(msg) ==
    CASE msg = ChecksFailed ->
            << "Checks", "failed.", "Check", "logs", "in", "./breathes/" >>
      [] msg = NoLanguage -> << "No", "language", "detected" >>

\* The verdict: Ok(0), or the error that points at the log tree.
Verdict ==
    /\ call = "run_hooks"
    /\ pc = "collected"
    /\ ret' = IF global_success(results) THEN Ok(0) ELSE Err(ChecksFailed)
    /\ pc' = "done"
    /\ UNCHANGED << windows, arg, cwd, dirs, files, call, l, tasks, results, faults, writes >>

\* A direct call of verify returns to its caller.
VerifyCall ==
    /\ call = "verify"
    /\ pc = "par"
    /\ AllFinished
    /\ ret' = tasks[1].res
    /\ pc' = "done"
    /\ UNCHANGED << windows, arg, cwd, dirs, files, call, l, tasks, results, faults, writes >>

(***************************************************************************)
(* Direct calls of the registry's functions.                               *)
(***************************************************************************)
\* detect().
DetectCall ==
    /\ call = "detect"
    /\ pc = "start"
    /\ \E listing \in read_dir(cwd) : ret' = Ok(detect(listing))
    /\ pc' = "done"
    /\ UNCHANGED << windows, arg, cwd, dirs, files, call, l, tasks, results, faults, writes >>

\* detect() called a second time in the same working directory, which is
\* read again, in whatever order it then comes; what the call returns is
\* kept in results.
DetectAgain ==
    /\ call = "detect"
    /\ pc = "done"
    /\ \E listing \in read_dir(cwd) : results' = << detect(listing) >>
    /\ pc' = "twice"
    /\ UNCHANGED << windows, arg, cwd, dirs, files, call, l, tasks, ret, faults, writes >>

\* add_if_exists(file, language, &mut vec): ret is vec after the call.
AddIfExistsCall ==
    /\ call = "add_if_exists"
    /\ pc = "start"
    /\ \E listing \in read_dir(cwd) :
          ret' = Ok(add_if_exists(arg.file, arg.language, arg.vec, listing))
    /\ pc' = "done"
    /\ UNCHANGED << windows, arg, cwd, dirs, files, call, l, tasks, results, faults, writes >>

\* Hook::get(language): a fresh vec![] filled by the ecosystem's builder.
\* The list the first call returned is kept in results.
HookGetCall ==
    /\ call = "Hook::get"
    /\ pc = "start"
    /\ results' = << << >> \o Hook_get(arg, windows) >>
    /\ pc' = "again"
    /\ UNCHANGED << windows, arg, cwd, dirs, files, call, l, tasks, ret, faults, writes >>

\* Between two calls of Hook::get the working directory becomes another
\* one (the process changes directory, or files appear in it).
WorkingDirectoryChanges ==
    /\ call = "Hook::get"
    /\ pc = "again"
    /\ cwd' \in HookGetDirectories
    /\ pc' = "moved"
    /\ UNCHANGED << windows, arg, dirs, files, call, l, tasks, results, ret, faults, writes >>

\* Hook::get(language) called a second time, in the other working
\* directory.
HookGetAgain ==
    /\ call = "Hook::get"
    /\ pc = "moved"
    /\ ret' = Ok(<< >> \o Hook_get(arg, windows))
    /\ pc' = "done"
    /\ UNCHANGED << windows, arg, cwd, dirs, files, call, l, tasks, results, faults, writes >>

\* Language::from(value).
FromCall ==
    /\ call = "Language::from"
    /\ pc = "start"
    /\ ret' = Ok(LanguageFrom(arg))
    /\ pc' = "done"
    /\ UNCHANGED << windows, arg, cwd, dirs, files, call, l, tasks, results, faults, writes >>

\* language.to_string(), and Language::from of the string it gave.
ToStringCall ==
    /\ call = "to_string"
    /\ pc = "start"
    /\ ret' = Ok(LanguageToString(arg))
    /\ pc' = "shown"
    /\ UNCHANGED << windows, arg, cwd, dirs, files, call, l, tasks, results, faults, writes >>

ParseBack ==
    /\ call = "to_string"
    /\ pc = "shown"
    /\ ret' = Ok(LanguageFrom(ret.val))
    /\ pc' = "done"
    /\ UNCHANGED << windows, arg, cwd, dirs, files, call, l, tasks, results, faults, writes >>

(***************************************************************************)
(* Direct calls of the validators.                                         *)
(***************************************************************************)
\* inquire's Validation.
Valid == [ v |-> "Valid" ]
Invalid(message) == [ v |-> "Invalid", message |-> message ]

\* validate_summary_length.
validate_summary_length(input) ==
    LET len == str_len(trim(input)) IN
    IF len > MAX_LENGTH
    THEN Ok(Invalid(<< "Summary is too long : ", len, " chars. The lim is ",
                       MAX_LENGTH, "." >>))
    ELSE Ok(Valid)

\* validate_commit_type comparing the input as it was typed.
validate_commit_type_NoTrim(input) ==
    LET trimmed_input == input IN
    IF trimmed_input \in Range(VALID_TYPES)
    THEN Ok(Valid)
    ELSE Ok(Invalid(<< "Type '", trimmed_input, "' invalide. Must be one of: ",
                       VALID_TYPES >>))

\* validate_commit_type.
validate_commit_type(input) ==
    LET trimmed_input == trim(input) IN
    IF trimmed_input \in Range(VALID_TYPES)
    THEN Ok(Valid)
    ELSE Ok(Invalid(<< "Type '", trimmed_input, "' invalide. Must be one of: ",
                       VALID_TYPES >>))

SummaryLengthCall ==
    /\ call = "validate_summary_length"
    /\ pc = "start"
    /\ ret' = validate_summary_length(arg)
    /\ pc' = "done"
    /\ UNCHANGED << windows, arg, cwd, dirs, files, call, l, tasks, results, faults, writes >>

CommitTypeCall ==
    /\ call = "validate_commit_type"
    /\ pc = "start"
    /\ ret' = validate_commit_type(arg)
    /\ pc' = "done"
    /\ UNCHANGED << windows, arg, cwd, dirs, files, call, l, tasks, results, faults, writes >>

Next ==
    \/ Detect
    \/ \E t \in DOMAIN tasks : TaskStart(t)
    \/ \E t \in DOMAIN tasks : VerifyPrepare(t)
    \/ \E t \in DOMAIN tasks : HookSkip(t)
    \/ \E t \in DOMAIN tasks : HookOpen(t)
    \/ \E t \in DOMAIN tasks : HookOpenErr(t)
    \/ \E t \in DOMAIN tasks : HookSpawn(t)
    \/ \E t \in DOMAIN tasks : ChildWrite(t)
    \/ \E t \in DOMAIN tasks : HookWait(t)
    \/ \E t \in DOMAIN tasks : VerifyReturn(t)
    \/ Collect
    \/ Verdict
    \/ VerifyCall
    \/ DetectCall
    \/ DetectAgain
    \/ AddIfExistsCall
    \/ HookGetCall
    \/ WorkingDirectoryChanges
    \/ HookGetAgain
    \/ FromCall
    \/ ToStringCall
    \/ ParseBack
    \/ SummaryLengthCall
    \/ CommitTypeCall

Spec == Init /\ [][Next]_vars

\* The steps the program takes by itself, and the one step that is up to a
\* hook's subprocess: its exit, which ends the wait() of ok().
ProgramStep ==
    \/ Detect
    \/ \E t \in DOMAIN tasks : TaskStart(t)
    \/ \E t \in DOMAIN tasks : VerifyPrepare(t)
    \/ \E t \in DOMAIN tasks : HookSkip(t)
    \/ \E t \in DOMAIN tasks : HookOpen(t)
    \/ \E t \in DOMAIN tasks : HookOpenErr(t)
    \/ \E t \in DOMAIN tasks : HookSpawn(t)
    \/ \E t \in DOMAIN tasks : VerifyReturn(t)
    \/ Collect
    \/ Verdict
    \/ VerifyCall
    \/ DetectCall
    \/ DetectAgain
    \/ AddIfExistsCall
    \/ HookGetCall
    \/ WorkingDirectoryChanges
    \/ HookGetAgain
    \/ FromCall
    \/ ToStringCall
    \/ ParseBack
    \/ SummaryLengthCall
    \/ CommitTypeCall

SubprocessExit == \E t \in DOMAIN tasks : HookWait(t)

\* The program keeps running (the thread pool runs every closure it was
\* given, and sequential code goes on), and every spawned subprocess
\* eventually exits.
FairSpec ==
    /\ Init /\ [][Next]_vars
    /\ WF_vars(ProgramStep)
    /\ WF_vars(SubprocessExit)

(***************************************************************************)
(* What a task's log says.                                                 *)
(***************************************************************************)
Events(task, kind) == { k \in DOMAIN task.log : task.log[k].e = kind }

\* The paths the task created or truncated with File::create.
CreatedPaths(task) == { task.log[k].path : k \in Events(task, "create") }

\* The hooks (by index) whose command the task tried to run, and those it
\* reported.
Attempted(task) ==
    { task.log[k].h : k \in Events(task, "spawn") \cup Events(task, "spawn_err") }
Reported(task) == { task.log[k].h : k \in Events(task, "println") }

IsPrefix(p, q) == Len(p) <= Len(q) /\ SubSeq(q, 1, Len(p)) = p

NoUnknownHook(hooks) ==
    \A k \in DOMAIN hooks : hooks[k].language # "Language::Unknown"

DistinctLogFiles(hooks) ==
    \A j, k \in DOMAIN hooks : j # k => hooks[j].file # hooks[k].file

ReturnedOk(task) == task.pc = "done" /\ task.res.kind = "Ok"

(***************************************************************************)
(* C1..C10                                                                 *)
(***************************************************************************)

\* C1: within one verify call the hooks' commands run strictly one at a
\* time and in list order: at most one subprocess of the task is alive, a
\* command is spawned (or fails to spawn) only after every earlier spawned
\* command of the list has exited, and commands exit in list order.
C1_HooksRunOneAtATimeInOrder ==
    \A t \in DOMAIN tasks :
        LET task == tasks[t]
            log == task.log
            starts == Events(task, "spawn") \cup Events(task, "spawn_err")
            exits == Events(task, "exit")
        IN  /\ Cardinality(task.live) <= 1
            /\ task.live =
                 { log[a].h : a \in { x \in Events(task, "spawn") :
                       ~ \E c \in exits : c > x /\ log[c].h = log[x].h } }
            /\ \A a, b \in starts :
                  a < b =>
                    /\ log[a].h < log[b].h
                    /\ log[a].e = "spawn" =>
                          \E c \in exits : a < c /\ c < b /\ log[c].h = log[a].h
            /\ \A a, b \in exits : a < b => log[a].h < log[b].h

\* C1 witness: the second hook of a list is running, after the first exited.
C1_Witness ==
    \E t \in DOMAIN tasks :
        /\ 2 \in tasks[t].live
        /\ \E c \in Events(tasks[t], "exit") : tasks[t].log[c].h = 1

\* C2 as stated: when verify returns Ok on a list in which a hook failed,
\* the result is false, every hook of the list was run and reported, and
\* the stdout and stderr files of every hook of the list exist.
C2_Original ==
    \A t \in DOMAIN tasks :
        LET task == tasks[t] IN
        (ReturnedOk(task) /\ FALSE \in Range(task.status)) =>
            /\ task.res.val[1] = FALSE
            /\ Attempted(task) = DOMAIN task.hooks
            /\ Reported(task) = DOMAIN task.hooks
            /\ \A k \in DOMAIN task.hooks :
                  /\ out_file(first_lang(task), task.hooks[k]) \in DOMAIN files
                  /\ err_file(first_lang(task), task.hooks[k]) \in DOMAIN files

\* C2 amended: the same for a list none of whose hooks has the language
\* Unknown; in any list, a failed hook stops no later hook: every hook whose
\* language is not Unknown was run and reported and has its two log files.
C2_NoShortCircuit ==
    \A t \in DOMAIN tasks :
        LET task == tasks[t]
            known == { k \in DOMAIN task.hooks :
                          task.hooks[k].language # "Language::Unknown" }
        IN
        (ReturnedOk(task) /\ FALSE \in Range(task.status)) =>
            /\ task.res.val[1] = FALSE
            /\ Attempted(task) = known
            /\ Reported(task) = known
            /\ Len(task.status) = Cardinality(known)
            /\ \A k \in known :
                  /\ out_file(first_lang(task), task.hooks[k]) \in DOMAIN files
                  /\ err_file(first_lang(task), task.hooks[k]) \in DOMAIN files
            /\ NoUnknownHook(task.hooks) => Attempted(task) = DOMAIN task.hooks

\* C2 witness: verify returned Ok(false) on a list of at least two hooks, none
\* Unknown, whose first hook failed and whose last hook succeeded.
C2_Witness ==
    \E t \in DOMAIN tasks :
        LET task == tasks[t] IN
        /\ ReturnedOk(task)
        /\ NoUnknownHook(task.hooks)
        /\ Len(task.hooks) >= 2
        /\ Len(task.status) = Len(task.hooks)
        /\ task.status[1] = FALSE
        /\ task.status[Len(task.status)] = TRUE

\* C3: the result recorded for a hook is success exactly when its command
\* was spawned, was waited for, and exited with status code 0.
C3_SucceededIffExitCodeZero ==
    \A t \in DOMAIN tasks :
        LET task == tasks[t] IN
        task.status # << >> =>
            /\ task.last # NoOutcome
            /\ task.status[Len(task.status)] =
                  ( /\ task.last.spawn = "ok"
                    /\ task.last.wait = "ok"
                    /\ task.last.code = << 0 >> )
            /\ task.log[Len(task.log)].e = "println"
               => ( task.log[Len(task.log)].mark = "ok"
                      <=> task.last = Exited(<< 0 >>) )

\* C3 witness: a command that ended without an exit code was recorded as
\* failed.
C3_Witness ==
    \E t \in DOMAIN tasks :
        /\ tasks[t].status # << >>
        /\ tasks[t].last = Exited(<< >>)
        /\ tasks[t].status[Len(tasks[t].status)] = FALSE

\* C4: when verify returns Ok, its boolean is the conjunction of the results
\* of the hooks it ran (true when it ran none), one result per hook it ran.
C4_ResultIsConjunction ==
    \A t \in DOMAIN tasks :
        LET task == tasks[t] IN
        ReturnedOk(task) =>
            /\ task.res.val[1] = (\A k \in DOMAIN task.status : task.status[k])
            /\ Len(task.status) = Cardinality(Attempted(task))
            /\ Attempted(task) = {} => task.res.val[1] = TRUE

\* C4 witness: verify returned Ok(false) after a failed hook followed by a
\* hook that succeeded.
C4_Witness ==
    \E t \in DOMAIN tasks :
        LET task == tasks[t] IN
        /\ ReturnedOk(task)
        /\ ~ task.res.val[1]
        /\ Len(task.status) >= 2
        /\ ~ task.status[1]
        /\ task.status[Len(task.status)]

\* Every detected ecosystem's verify returned Ok with all_succeeded = true.
EveryTaskSucceeded ==
    \A t \in DOMAIN tasks :
        tasks[t].res.kind = "Ok" /\ tasks[t].res.val[1] = TRUE

\* C5: run_hooks returns Ok(0) iff something was detected and every detected
\* ecosystem's verify returned Ok(true, _); otherwise it returns an error.
C5_GlobalSuccessIsConjunction ==
    (call = "run_hooks" /\ pc = "done") =>
        /\ ret.kind \in { "Ok", "Err" }
        /\ ret = Ok(0) <=> (l # << >> /\ EveryTaskSucceeded)
        /\ ret.kind = "Ok" => ret = Ok(0)
        /\ (l # << >> /\ ~ EveryTaskSucceeded) => ret = Err(ChecksFailed)

\* C5 witness: run_hooks returned the error although one ecosystem passed,
\* because another one's verify returned Err.
C5_Witness ==
    /\ call = "run_hooks"
    /\ pc = "done"
    /\ ret = Err(ChecksFailed)
    /\ \E t \in DOMAIN tasks :
          tasks[t].res.kind = "Ok" /\ tasks[t].res.val[1] = TRUE
    /\ \E t \in DOMAIN tasks : tasks[t].res.kind = "Err"

\* C6: once run_hooks has collected the results (and so before the verdict
\* is computed, printed or returned) every closure has returned and no hook
\* subprocess is running; the results are those of the tasks.
C6_FullJoin ==
    (call = "run_hooks" /\ pc \in { "collected", "done" }) =>
        /\ \A t \in DOMAIN tasks :
              /\ tasks[t].pc = "done"
              /\ tasks[t].live = {}
              /\ tasks[t].res.kind \in { "Ok", "Err" }
        /\ pc = "collected" => Len(results) = Len(l)
        /\ \A k \in DOMAIN results : results[k] = << l[k], tasks[k].res >>

\* C6 witness: the results of at least two tasks have been collected.
C6_Witness ==
    /\ call = "run_hooks"
    /\ pc = "collected"
    /\ Len(results) >= 2

\* C7 as stated: no two tasks of one run_hooks call create or truncate the
\* same log file path.
C7_DisjointWrites ==
    call = "run_hooks" =>
        \A t1, t2 \in DOMAIN tasks :
            t1 # t2 => CreatedPaths(tasks[t1]) \cap CreatedPaths(tasks[t2]) = {}

\* C8 as stated: every log file a task creates lies under the directory
\* named after the task's own ecosystem, breathes/<name of E>/stdout or
\* breathes/<name of E>/stderr, and is named after a hook of E's list.
C8_WritesUnderOwnEcosystem ==
    call = "run_hooks" =>
        \A t \in DOMAIN tasks :
            \A p \in CreatedPaths(tasks[t]) :
                \E k \in DOMAIN tasks[t].hooks :
                    LET name == LanguageToString(tasks[t].lang)
                        file == tasks[t].hooks[k].file
                    IN  p \in { << "breathes", name, "stdout", file >>,
                                << "breathes", name, "stderr", file >> }

\* The stdout and stderr files a task created.
StdoutCreated(task) == { p \in CreatedPaths(task) : p[3] = "stdout" }
StderrCreated(task) == { p \in CreatedPaths(task) : p[3] = "stderr" }

\* C9 as stated: for every non-empty list on which verify returns Ok, as
\* many stdout files and as many stderr files were created as the list has
\* hooks, and each hook's files exist.
C9_Original ==
    \A t \in DOMAIN tasks :
        LET task == tasks[t] IN
        (ReturnedOk(task) /\ task.hooks # << >>) =>
            /\ Cardinality(StdoutCreated(task)) = Len(task.hooks)
            /\ Cardinality(StderrCreated(task)) = Len(task.hooks)

\* C9 amended: that holds for every non-empty list whose hooks all have a
\* language other than Unknown and pairwise distinct log filenames; the
\* files are each hook's out_file and err_file, and in a direct call of
\* verify on an empty log tree they are all the files there are.
C9_OneFilePairPerHook ==
    \A t \in DOMAIN tasks :
        LET task == tasks[t]
            lang == first_lang(task)
        IN
        ( /\ ReturnedOk(task)
          /\ task.hooks # << >>
          /\ NoUnknownHook(task.hooks)
          /\ DistinctLogFiles(task.hooks) ) =>
            /\ Cardinality(StdoutCreated(task)) = Len(task.hooks)
            /\ Cardinality(StderrCreated(task)) = Len(task.hooks)
            /\ StdoutCreated(task) =
                  { << "breathes", LanguageToString(lang), "stdout", task.hooks[k].file >> :
                        k \in DOMAIN task.hooks }
            /\ StderrCreated(task) =
                  { << "breathes", LanguageToString(lang), "stderr", task.hooks[k].file >> :
                        k \in DOMAIN task.hooks }
            /\ CreatedPaths(task) \subseteq DOMAIN files
            /\ call = "verify" => DOMAIN files = CreatedPaths(task)

\* C9 witness: verify returned Ok on a list of two hooks and four files exist.
C9_Witness ==
    /\ call = "verify"
    /\ ReturnedOk(tasks[1])
    /\ Len(tasks[1].hooks) = 2
    /\ NoUnknownHook(tasks[1].hooks)
    /\ DistinctLogFiles(tasks[1].hooks)
    /\ Cardinality(DOMAIN files) = 4

\* C10: when detection finds nothing, run_hooks returns the "No language
\* detected" error, no task exists (no hook is spawned) and the log tree is
\* not created.
C10_NothingDetected ==
    (call = "run_hooks" /\ pc # "start" /\ l = << >>) =>
        /\ pc = "done"
        /\ ret = Err(NoLanguage)
        /\ tasks = << >>
        /\ dirs = {}
        /\ DOMAIN files = {}

\* C10 witness: run_hooks returned in a working directory that holds entries
\* but no manifest file.
C10_Witness ==
    /\ call = "run_hooks"
    /\ pc = "done"
    /\ l = << >>
    /\ cwd # {}
    /\ ret = Err(NoLanguage)

(***************************************************************************)
(* Claims C11..C20.                                                        *)
(***************************************************************************)
\* A direct call of verify whose list is empty or starts with an
\* Unknown-language hook.
NothingToVerify(task) ==
    task.hooks = << >> \/ first_lang(task) = "Language::Unknown"

\* C11: a call of verify with an empty hook list, or with a list whose
\* first hook belongs to the Unknown ecosystem, returns exactly (true, 0)
\* and runs no hook.
C11_EmptyOrUnknownReturnsTrueZero ==
    call = "verify" =>
        \A t \in DOMAIN tasks :
            NothingToVerify(tasks[t]) =>
                /\ Attempted(tasks[t]) = {}
                /\ tasks[t].pc = "done" => tasks[t].res = Ok(<< TRUE, 0 >>)

\* C12: a call of verify with an empty hook list, or with a list whose
\* first hook belongs to the Unknown ecosystem, creates no log directory:
\* the filesystem is as it was before the call.
C12_NothingToVerifyLeavesFilesystem ==
    call = "verify" =>
        \A t \in DOMAIN tasks :
            NothingToVerify(tasks[t]) =>
                dirs = {} /\ DOMAIN files = {}

\* The filesystem errors the task met: failed create_dir_all and
\* File::create calls.
FsErrors(task) == Events(task, "mkdir_err") \cup Events(task, "create_err")

\* C13: when creating a log directory or a hook's stdout or stderr log file
\* fails inside verify, verify returns Err at that point: the failed call
\* is the last thing the task did, the hook whose file could not be created
\* and every later hook of the list is never spawned, no subprocess is left
\* running, and the Err carries none of the results of the hooks already
\* run (run_hooks collects the Err as it is).
C13_FilesystemErrorAborts ==
    \A t \in DOMAIN tasks :
        LET task == tasks[t] IN
        FsErrors(task) # {} =>
            /\ FsErrors(task) = { Len(task.log) }
            /\ task.pc = "done"
            /\ task.res = Err("io")
            /\ task.live = {}
            /\ \A h \in task.i .. Len(task.hooks) : h \notin Attempted(task)
            /\ Len(task.status) = Cardinality(Reported(task))
            /\ (call = "run_hooks" /\ results # << >>) =>
                    results[t] = << task.lang, Err("io") >>
            /\ (call = "verify" /\ pc = "done") => ret = Err("io")

\* The second hook's log file could not be created after the first hook
\* was run and reported: verify returned Err and the first hook's result
\* is nowhere in it.
C13_Witness ==
    \E t \in DOMAIN tasks :
        LET task == tasks[t] IN
        /\ Events(task, "create_err") # {}
        /\ task.i = 2
        /\ Len(task.hooks) >= 2
        /\ Attempted(task) = {1}
        /\ task.status = << TRUE >>
        /\ task.res = Err("io")

\* One step of the closure t of the parallel map.
TaskStep(t) ==
    \/ TaskStart(t)
    \/ VerifyPrepare(t)
    \/ HookSkip(t)
    \/ HookOpen(t)
    \/ HookOpenErr(t)
    \/ HookSpawn(t)
    \/ HookWait(t)
    \/ VerifyReturn(t)

\* C14: sibling isolation.  While run_hooks is in its parallel map, a task
\* that has not returned can always take its next step, whatever has
\* happened in the other tasks; and once the map is collected every task has
\* returned, a task that met no filesystem error of its own has run every
\* hook of its list, and the result of every task is in the aggregate, at
\* its own position.
C14_SiblingIsolation ==
    call = "run_hooks" =>
        /\ pc = "par" =>
              \A t \in DOMAIN tasks :
                  tasks[t].pc # "done" => ENABLED TaskStep(t)
        /\ (pc \in { "collected", "done" } /\ l # << >>) =>
              /\ DOMAIN results = DOMAIN l
              /\ \A t \in DOMAIN tasks :
                    /\ tasks[t].pc = "done"
                    /\ results[t] = << l[t], tasks[t].res >>
                    /\ FsErrors(tasks[t]) = {} =>
                          /\ tasks[t].res.kind = "Ok"
                          /\ tasks[t].hooks = Hook_get(l[t], windows)
                          /\ Attempted(tasks[t]) = DOMAIN tasks[t].hooks

\* The task of one ecosystem returned Err on a filesystem error, or had a
\* failed hook; the task of another ecosystem ran all its hooks with
\* success, and both results were collected.
C14_Witness ==
    /\ call = "run_hooks"
    /\ pc = "collected"
    /\ \E a, b \in DOMAIN tasks :
          /\ l[a] # l[b]
          /\ \/ results[a][2].kind = "Err"
             \/ results[a][2].kind = "Ok" /\ ~ results[a][2].val[1]
          /\ Attempted(tasks[b]) = DOMAIN tasks[b].hooks
          /\ tasks[b].hooks # << >>
          /\ results[b][2].kind = "Ok" /\ results[b][2].val[1]

\* C15: round trip.  For every variant E of Language, Language::from of the
\* string Display gives for E is E again; and every string that is not the
\* canonical name of a variant parses to Unknown.
C15_DisplayFromRoundTrip ==
    /\ (call = "to_string" /\ pc = "done") => ret = Ok(arg)
    /\ (call = "Language::from" /\ pc = "done" /\ arg \notin CanonicalNames) =>
            ret = Ok("Language::Unknown")

\* What detect returned: to a direct caller, or to run_hooks.
HasDetected ==
    \/ call = "detect" /\ pc = "done"
    \/ call = "run_hooks" /\ pc # "start"
Detected == IF call = "detect" THEN ret.val ELSE l

Count(s, x) == Cardinality({ k \in DOMAIN s : s[k] = x })

\* The regular files of the working directory a rule's pattern stands for:
\* the file of that name, or for "*<suffix>" the files ending in <suffix>.
RuleFiles(pattern) ==
    { e \in cwd :
        /\ e.kind = "file"
        /\ IF pattern = "*.csproj" THEN e.ext = ".csproj"
           ELSE IF pattern = "*.cabal" THEN e.ext = ".cabal"
           ELSE Name(e) = pattern }

\* C16: detect returns its detections in registry order: all detections of
\* an earlier rule's ecosystem precede all detections of a later rule's; a
\* plain-filename rule contributes its ecosystem once iff that name is a
\* regular file of the working directory, and a glob rule contributes one
\* detection per matching regular file.
C16_DetectInRegistryOrder ==
    HasDetected =>
        /\ \A i, j \in DOMAIN Detected :
              i < j =>
                \E r1, r2 \in DOMAIN LANGUAGES :
                    /\ r1 <= r2
                    /\ LANGUAGES[r1][1] = Detected[i]
                    /\ LANGUAGES[r2][1] = Detected[j]
        /\ \A r \in DOMAIN LANGUAGES :
              Count(Detected, LANGUAGES[r][1]) =
                  Cardinality(RuleFiles(LANGUAGES[r][2]))
        /\ Len(Detected) <= Cardinality(cwd)
        /\ \A k \in DOMAIN Detected :
              \E r \in DOMAIN LANGUAGES : LANGUAGES[r][1] = Detected[k]

\* detect returned two detections of a glob rule followed by a detection of
\* a later plain rule.
C16_Witness ==
    /\ call = "detect"
    /\ pc = "done"
    /\ Len(ret.val) = 3
    /\ ret.val[1] = ret.val[2]
    /\ ret.val[2] # ret.val[3]

\* C17: when expanding the pattern of a glob rule (a rule of CSharp or
\* Haskell) fails with a glob error, the rule contributes no detection,
\* whatever the working directory holds: vec is left as it was.
C17_GlobErrorContributesNothing ==
    ( /\ call = "add_if_exists"
      /\ pc = "done"
      /\ arg.language \in { "Language::CSharp", "Language::Haskell" }
      /\ arg.file \in MalformedPatterns )
        => ret = Ok(arg.vec)

\* The fields of struct Hook.
HookFields ==
    { "language", "description", "success", "failure", "file", "command" }

FilesIn(dir) == { p \in DOMAIN files : Len(p) = Len(dir) + 1 /\ IsPrefix(dir, p) }

\* Both hooks of the task were run and both commands exited with code 0.
BothExitedZero(task) ==
    /\ { task.log[k].h : k \in Events(task, "exit") } = { 1, 2 }
    /\ \A k \in Events(task, "println") : task.log[k].mark = "ok"
    /\ task.last = Exited(<< 0 >>)

\* C19: run_hooks in a working directory that holds only go.mod.  detect
\* returns [Go]; the Go task's list is exactly the two hooks test and audit
\* in that order; when run_hooks has returned after a run without filesystem
\* error, breathes/Go/stdout/ and breathes/Go/stderr/ hold exactly the two
\* files test.log and audit.log each (and never more than these); and
\* run_hooks returns success iff both commands exited with code 0.
C19_GoOnlyScenario ==
    (call = "run_hooks" /\ cwd = { Entry("go", ".mod", "file") } /\ pc # "start") =>
        /\ l = << "Language::Go" >>
        /\ Len(tasks) = 1
        /\ tasks[1].pc # "idle" =>
              /\ Len(tasks[1].hooks) = 2
              /\ tasks[1].hooks[1].file = "test.log"
              /\ tasks[1].hooks[1].command = "go test -v"
              /\ tasks[1].hooks[2].file = "audit.log"
              /\ tasks[1].hooks[2].command = "go list -u -m -json all"
        /\ FilesIn(<< "breathes", "Go", "stdout" >>) \subseteq
              { << "breathes", "Go", "stdout", "test.log" >>,
                << "breathes", "Go", "stdout", "audit.log" >> }
        /\ FilesIn(<< "breathes", "Go", "stderr" >>) \subseteq
              { << "breathes", "Go", "stderr", "test.log" >>,
                << "breathes", "Go", "stderr", "audit.log" >> }
        /\ { Len(p) : p \in DOMAIN files } \subseteq { 4 }
        /\ pc = "done" =>
              /\ ret = Ok(0) <=> BothExitedZero(tasks[1])
              /\ ret # Ok(0) => ret = Err(ChecksFailed)
              /\ FsErrors(tasks[1]) = {} =>
                    /\ Attempted(tasks[1]) = { 1, 2 }
                    /\ Cardinality(FilesIn(<< "breathes", "Go", "stdout" >>)) = 2
                    /\ Cardinality(FilesIn(<< "breathes", "Go", "stderr" >>)) = 2

\* run_hooks returned success in a directory holding only go.mod, with two
\* log files in each of the two Go directories.
C19_Witness ==
    /\ call = "run_hooks"
    /\ cwd = { Entry("go", ".mod", "file") }
    /\ pc = "done"
    /\ ret = Ok(0)
    /\ Cardinality(FilesIn(<< "breathes", "Go", "stdout" >>)) = 2
    /\ Cardinality(FilesIn(<< "breathes", "Go", "stderr" >>)) = 2

\* C20: for every hook that verify runs, exactly one report is emitted
\* after the hook finishes (directly after its exit, or after the failed
\* spawn): the hook's failure message if the hook failed and the hook's
\* success message if it succeeded.
C20_ReportIsHookMessage ==
    \A t \in DOMAIN tasks :
        LET task == tasks[t] IN
        /\ \A h \in Attempted(task) :
              task.i > h =>
                  Cardinality({ k \in Events(task, "println") :
                                    task.log[k].h = h }) = 1
        /\ \A k \in Events(task, "println") :
              /\ k > 1
              /\ task.log[k - 1].e \in { "exit", "spawn_err" }
              /\ task.log[k - 1].h = task.log[k].h
              /\ task.log[k].text =
                    IF task.log[k].mark = "ok"
                    THEN task.hooks[task.log[k].h].success
                    ELSE task.hooks[task.log[k].h].failure

(***************************************************************************)
(* Claims C21..C30.                                                        *)
(***************************************************************************)
\* The collected result of a task counts as a failure of its ecosystem.
FailedResult(res) == res.kind = "Err" \/ (res.kind = "Ok" /\ ~ res.val[1])

\* C21: when the overall verdict is failure, the failure signal run_hooks
\* returns names every ecosystem that failed (by its canonical name) and
\* refers to the log tree on disk.
C21_VerdictNamesFailedEcosystems ==
    (call = "run_hooks" /\ pc = "done" /\ l # << >> /\ ret.kind = "Err") =>
        /\ "./breathes/" \in Range(ErrorWords(ret.msg))
        /\ \A k \in DOMAIN results :
              FailedResult(results[k][2]) =>
                  LanguageToString(results[k][1]) \in Range(ErrorWords(ret.msg))

\* The hooks of the task whose command failed: they were reported with the
\* failure mark (non-zero or missing exit code, spawn or wait error).
FailedHooks(task) ==
    { task.log[k].h : k \in { j \in Events(task, "println") :
                                  task.log[j].mark = "fail" } }

\* C22 as stated: verify returns an Err if a hook's command execution
\* fails at any point: a call of verify that has returned after a hook
\* whose command failed (non-zero or missing exit code, spawn or wait
\* error) has returned Err.
C22_Original ==
    \A t \in DOMAIN tasks :
        (tasks[t].pc = "done" /\ FailedHooks(tasks[t]) # {}) =>
            tasks[t].res.kind = "Err"

\* The attempts of the task to spawn the command of hook h.
SpawnAttempts(task, h) ==
    { k \in Events(task, "spawn") \cup Events(task, "spawn_err") :
          task.log[k].h = h }

\* C23: no retry.  Within one call of verify the command of each hook is
\* spawned at most once, whether it succeeds or fails: a hook has at most
\* one spawn attempt and at most one exit, and once a hook is reported as
\* failed nothing more is done for it.
C23_NoRetry ==
    \A t \in DOMAIN tasks :
        LET task == tasks[t] IN
        \A h \in DOMAIN task.hooks :
            /\ Cardinality(SpawnAttempts(task, h)) <= 1
            /\ Cardinality({ k \in Events(task, "exit") : task.log[k].h = h }) <= 1
            /\ h \in FailedHooks(task) =>
                  /\ task.i > h
                  /\ h \notin task.live
                  /\ \A k \in DOMAIN task.log :
                        ("h" \in DOMAIN task.log[k] /\ task.log[k].h = h) =>
                            k <= CHOOSE j \in Events(task, "println") :
                                     task.log[j].h = h

\* A hook failed with a non-zero exit code, was spawned once, and verify
\* has returned.
C23_Witness ==
    \E t \in DOMAIN tasks :
        LET task == tasks[t] IN
        /\ task.pc = "done"
        /\ \E h \in FailedHooks(task) :
              /\ Cardinality(SpawnAttempts(task, h)) = 1
              /\ \E k \in Events(task, "exit") : task.log[k].h = h

\* C24: nothing is deleted.  In every step of detect, verify and run_hooks
\* every directory and every file of the log tree that exists before the
\* step exists after it: the tree only grows.  (File::create may empty a
\* file that exists; the file stays.)
C24_NothingDeleted ==
    [][ dirs \subseteq dirs' /\ DOMAIN files \subseteq DOMAIN files' ]_vars

\* Two verify calls of one run have worked on the log tree, the second
\* creating a log file again that the first had created, and the tree holds
\* the directories and files of both.
C24_Witness ==
    \E t, u \in DOMAIN tasks :
        /\ t # u
        /\ tasks[t].pc = "done"
        /\ tasks[u].pc = "done"
        /\ CreatedPaths(tasks[t]) \cap CreatedPaths(tasks[u]) # {}
        /\ CreatedPaths(tasks[t]) \cup CreatedPaths(tasks[u]) \subseteq DOMAIN files
        /\ Root \in dirs

\* The hooks of the task whose subprocess has exited.
Exits(task) == { task.log[k].h : k \in Events(task, "exit") }
Spawns(task) == { task.log[k].h : k \in Events(task, "spawn") }

\* C25: if every spawned hook subprocess eventually exits, run_hooks
\* eventually returns a verdict.  There is no timeout and no cancellation:
\* a task that waits for a subprocess does nothing before that subprocess
\* exits, and run_hooks has not collected, let alone returned, while any
\* subprocess it spawned has not exited.
C25_ReturnsOnceSubprocessesExit ==
    /\ <>(call = "run_hooks" => (pc = "done" /\ ret # None))
    /\ [](call = "run_hooks" =>
            \A t \in DOMAIN tasks :
                /\ tasks[t].pc = "wait" =>
                      /\ tasks[t].live = { tasks[t].i }
                      /\ tasks[t].i \notin Reported(tasks[t])
                /\ (pc \in { "collected", "done" } \/ tasks[t].pc = "done") =>
                      /\ tasks[t].live = {}
                      /\ Spawns(tasks[t]) = Exits(tasks[t]))

\* run_hooks returned a verdict after two tasks each waited for their
\* subprocesses to exit.
C25_Witness ==
    /\ call = "run_hooks"
    /\ pc = "done"
    /\ ret # None
    /\ Len(tasks) >= 2
    /\ \A t \in DOMAIN tasks : Exits(tasks[t]) = DOMAIN tasks[t].hooks

\* C26: each ecosystem appears at most once among the detection rules of
\* the registry LANGUAGES; so what detect returns from a scan that met no
\* glob match holds no ecosystem twice.
C26_RegistryHasNoDuplicate ==
    HasDetected =>
        /\ \A i, j \in DOMAIN LANGUAGES :
              LANGUAGES[i][1] = LANGUAGES[j][1] => i = j
        /\ (\A e \in cwd : e.ext \notin { ".csproj", ".cabal" }) =>
              \A i, j \in DOMAIN Detected : Detected[i] = Detected[j] => i = j

\* detect scanned a directory that holds Cargo.toml and another manifest,
\* and returned Rust once.
C26_Witness ==
    /\ call = "detect"
    /\ pc = "done"
    /\ Entry("Cargo", ".toml", "file") \in cwd
    /\ Len(ret.val) = 2
    /\ Count(ret.val, "Language::Rust") = 1

\* C27: validate_summary_length returns Valid only when the trimmed
\* summary is under 50 characters long, and Invalid otherwise.
C27_ValidIffUnderFiftyCharacters ==
    (call = "validate_summary_length" /\ pc = "done") =>
        /\ ret.kind = "Ok"
        /\ ret.val.v = "Valid" <=> Len(trim(arg)) < 50

\* The input is one of the entries of VALID_TYPES with nothing but
\* whitespace before and after it.
IsPaddedValidType(input) ==
    \E k \in DOMAIN VALID_TYPES :
        \E a, b \in 0..Len(input) :
            /\ a + Len(VALID_TYPES[k]) + b = Len(input)
            /\ \A j \in 1..a : input[j] \in Whitespace
            /\ SubSeq(input, a + 1, a + Len(VALID_TYPES[k])) = VALID_TYPES[k]
            /\ \A j \in (Len(input) - b + 1)..Len(input) : input[j] \in Whitespace

\* C28: validate_commit_type returns Valid if and only if the input, after
\* trimming surrounding whitespace, is exactly one of the 10 entries of
\* VALID_TYPES; every other input returns Invalid, and the function never
\* returns an error.
C28_ValidIffTrimmedIsValidType ==
    (call = "validate_commit_type" /\ pc = "done") =>
        /\ ret.kind = "Ok"
        /\ ret.val.v \in { "Valid", "Invalid" }
        /\ ret.val.v = "Valid" <=> IsPaddedValidType(arg)
        /\ Cardinality(Range(VALID_TYPES)) = 10

\* A valid type typed with whitespace before and after it was accepted.
C28_Witness ==
    /\ call = "validate_commit_type"
    /\ pc = "done"
    /\ ret = Ok(Valid)
    /\ Len(arg) >= 2
    /\ arg[1] \in Whitespace
    /\ arg[Len(arg)] \in Whitespace

\* The ecosystems detected by a glob rule, with the pattern's suffix.
GlobRuleSuffix(language) ==
    IF language = "Language::CSharp" THEN ".csproj" ELSE ".cabal"

TasksOf(language) == { t \in DOMAIN tasks : tasks[t].lang = language }

\* C29: when a glob rule matches k >= 2 regular files, detect returns that
\* ecosystem k times and run_hooks starts k tasks for it; each of these
\* tasks runs the ecosystem's whole hook list (unless a filesystem error of
\* its own stops it), and the ecosystem contributes k entries to results.
C29_GlobMatchesRunHooksKTimes ==
    (call = "run_hooks" /\ pc # "start") =>
        \A language \in { "Language::CSharp", "Language::Haskell" } :
            LET k == Cardinality({ e \in cwd :
                         e.kind = "file" /\ e.ext = GlobRuleSuffix(language) })
            IN  k >= 2 =>
                  /\ Count(l, language) = k
                  /\ Cardinality(TasksOf(language)) = k
                  /\ pc \in { "collected", "done" } =>
                        /\ Cardinality({ j \in DOMAIN results :
                                            results[j][1] = language }) = k
                        /\ \A t \in TasksOf(language) :
                              /\ tasks[t].hooks = Hook_get(language, windows)
                              /\ results[t] = << language, tasks[t].res >>
                              /\ FsErrors(tasks[t]) = {} =>
                                    Attempted(tasks[t]) = DOMAIN tasks[t].hooks

\* Two *.cabal files: two Haskell tasks have each run the whole Haskell
\* list, and results holds two Haskell entries.
C29_Witness ==
    /\ call = "run_hooks"
    /\ pc = "collected"
    /\ Cardinality(TasksOf("Language::Haskell")) = 2
    /\ Len(results) = 2
    /\ \A t \in DOMAIN tasks :
          /\ Attempted(tasks[t]) = DOMAIN Hook_haskell
          /\ results[t][1] = "Language::Haskell"

\* The hook of the task that has just finished: its report is the last
\* thing the task did.
JustFinished(task) ==
    { h \in Exits(task) :
        /\ task.log[Len(task.log)].e = "println"
        /\ task.log[Len(task.log)].h = h }

\* C30: each hook's stdout and stderr log files are created fresh for the
\* hook.  When the hook's subprocess is about to be spawned both files
\* exist and are empty, and when the hook has finished each of the two
\* files holds only what that execution of the hook wrote, never content
\* written by another hook or another run of the list.
C30_LogFilesFreshPerHook ==
    \A t \in DOMAIN tasks :
        LET task == tasks[t]
            out(h) == out_file(first_lang(task), task.hooks[h])
            err(h) == err_file(first_lang(task), task.hooks[h])
        IN
        /\ task.pc = "spawn" =>
              /\ out(task.i) \in DOMAIN files /\ files[out(task.i)] = {}
              /\ err(task.i) \in DOMAIN files /\ files[err(task.i)] = {}
        /\ \A h \in JustFinished(task) :
              /\ files[out(h)] \subseteq { << t, h >> }
              /\ files[err(h)] \subseteq { << t, h >> }

(***************************************************************************)
(* C31                                                                     *)
(***************************************************************************)
GradleCommands(win) ==
    IF win THEN << "gradlew.bat build", "gradlew.bat test" >>
    ELSE << "gradlew build", "gradlew test" >>

Commands(hooks) == [ k \in DOMAIN hooks |-> hooks[k].command ]

\* C31: verify hands every hook's command string to the shell as it stands
\* in the list: the subprocess it spawns is `cmd /C <command>` on a Windows
\* build and `sh -c <command>` elsewhere, whatever the command is.  The
\* Gradle wrapper (gradlew.bat or gradlew) is chosen by Hook::get alone: the
\* list it returns for Gradle carries the build's wrapper, and run_hooks
\* runs exactly those commands.
C31_CommandPassedVerbatim ==
    /\ \A t \in DOMAIN tasks : \A k \in Events(tasks[t], "spawn") :
          LET ev == tasks[t].log[k] IN
          /\ Len(ev.argv) = 3
          /\ ev.argv[3] = tasks[t].hooks[ev.h].command
          /\ SubSeq(ev.argv, 1, 2) =
                IF windows THEN << "cmd", "/C" >> ELSE << "sh", "-c" >>
    /\ (call = "Hook::get" /\ pc = "done" /\ arg = "Language::Gradle")
          => Commands(ret.val) = GradleCommands(windows)
    /\ call = "run_hooks" =>
          \A t \in DOMAIN tasks : \A k \in Events(tasks[t], "spawn") :
              tasks[t].lang = "Language::Gradle" =>
                  tasks[t].log[k].argv[3] = GradleCommands(windows)[tasks[t].log[k].h]

\* On a Windows build verify was given the list built for the other
\* platform, and ran `gradlew build` through cmd /C as it was.
C31_Witness ==
    /\ call = "verify"
    /\ windows
    /\ arg = Hook_gradle(FALSE)
    /\ \E k \in Events(tasks[1], "spawn") :
          tasks[1].log[k].argv = << "cmd", "/C", "gradlew build" >>

(***************************************************************************)
(* C32                                                                     *)
(***************************************************************************)
Detecting == call = "detect" \/ (call = "run_hooks" /\ pc = "start")

\* C32: detect only reads the working directory: a step of detect (called
\* directly, or as the first step of run_hooks) leaves the working
\* directory, the log tree's directories and its files as they were; and a
\* second call of detect in the same working directory returns the sequence
\* the first call returned, in whatever order each of the two calls was
\* given the directory's entries.
C32_DetectIsReadOnly ==
    /\ [](call = "detect" /\ pc = "twice" =>
            /\ results[1] = ret.val
            /\ dirs = {}
            /\ DOMAIN files = {})
    /\ [][Detecting => (cwd' = cwd /\ dirs' = dirs /\ files' = files)]_vars

\* detect was called twice in a directory with manifests of two ecosystems
\* (which can be read in either order) and returned both detections both
\* times.
C32_Witness ==
    /\ call = "detect"
    /\ pc = "twice"
    /\ Cardinality({ e \in cwd : e.kind = "file" }) >= 2
    /\ Len(ret.val) >= 2
    /\ ret.val[1] # ret.val[2]
    /\ results[1] = ret.val

(***************************************************************************)
(* C33                                                                     *)
(***************************************************************************)
\* C33: every hook of the list Hook::get(E) returns carries E in its
\* language field, for every ecosystem E: in the list a direct call
\* returned, and in the list each closure of run_hooks fetched for its
\* detected ecosystem.
C33_HookLanguageIsEcosystem ==
    /\ (call = "Hook::get" /\ pc = "done") =>
          \A k \in DOMAIN ret.val : ret.val[k].language = arg
    /\ call = "run_hooks" =>
          \A t \in DOMAIN tasks : \A k \in DOMAIN tasks[t].hooks :
              tasks[t].hooks[k].language = tasks[t].lang

(***************************************************************************)
(* C34                                                                     *)
(***************************************************************************)
HasRule(language) ==
    \E k \in DOMAIN LANGUAGES : LANGUAGES[k] = << language, get_file(language) >>

\* C34: every ecosystem with a manifest pattern (Language::get_file is not
\* the empty string), and every ecosystem whose Hook::get list is not
\* empty, has its rule (E, get_file(E)) in LANGUAGES; so when a regular
\* file of that name is in the working directory, detect returns the
\* ecosystem.
C34_RegistryComplete ==
    /\ (call = "Hook::get" /\ pc = "done") =>
          /\ get_file(arg) # "" => HasRule(arg)
          /\ ret.val # << >> => HasRule(arg)
    /\ (call = "detect" /\ pc = "done") =>
          \A language \in Languages :
              (get_file(language) # "" /\ is_file(get_file(language), cwd))
                  => language \in Range(ret.val)

(***************************************************************************)
(* C35                                                                     *)
(***************************************************************************)
\* The paths File::create was called on for hook h of the task.
CreatedFor(task, h) ==
    { task.log[k].path : k \in { j \in Events(task, "create") : task.log[j].h = h } }

\* C35: in the list Hook::get returns, for every ecosystem, the log
\* filenames are pairwise distinct; and in a verify call on such a list
\* (each closure of run_hooks) the files created for one hook are not those
\* created for another hook of the list.
C35_DistinctLogFilesPerList ==
    /\ (call = "Hook::get" /\ pc = "done") => DistinctLogFiles(ret.val)
    /\ call = "run_hooks" =>
          \A t \in DOMAIN tasks :
              /\ DistinctLogFiles(tasks[t].hooks)
              /\ \A g, h \in DOMAIN tasks[t].hooks :
                    g # h => CreatedFor(tasks[t], g) \cap CreatedFor(tasks[t], h) = {}

\* A TypeScript project: the closure has created the log files of all six
\* hooks of the list, twelve paths in all.
C35_Witness ==
    /\ call = "run_hooks"
    /\ \E t \in DOMAIN tasks :
          /\ tasks[t].lang = "Language::Typescript"
          /\ tasks[t].pc = "done"
          /\ \A h \in DOMAIN tasks[t].hooks : Cardinality(CreatedFor(tasks[t], h)) = 2
          /\ Cardinality(CreatedPaths(tasks[t])) = 12

(***************************************************************************)
(* C36                                                                     *)
(***************************************************************************)
Detectable == { LANGUAGES[k][1] : k \in DOMAIN LANGUAGES }

\* C36: every ecosystem of a detection rule has a hook list that is not
\* empty and holds no Unknown hook, and so has every closure of run_hooks
\* once it fetched its list; and when run_hooks returns Ok(0), every closure
\* has spawned a subprocess for every hook of its list (at least one), each
\* subprocess has exited, and each was reported as succeeded, which is
\* recorded only for exit code 0.
C36_SuccessIsNeverVacuous ==
    /\ (call = "Hook::get" /\ pc = "done" /\ arg \in Detectable) =>
          (ret.val # << >> /\ NoUnknownHook(ret.val))
    /\ call = "run_hooks" =>
          \A t \in DOMAIN tasks :
              /\ tasks[t].lang \in Detectable
              /\ tasks[t].pc # "idle" => tasks[t].hooks # << >>
    /\ (call = "run_hooks" /\ pc = "done" /\ ret = Ok(0)) =>
          /\ tasks # << >>
          /\ \A t \in DOMAIN tasks :
                LET task == tasks[t] IN
                /\ Spawns(task) = DOMAIN task.hooks
                /\ Spawns(task) # {}
                /\ Exits(task) = Spawns(task)
                /\ Len(task.status) = Len(task.hooks)
                /\ \A k \in DOMAIN task.status : task.status[k]
                /\ \A k \in Events(task, "println") : task.log[k].mark = "ok"
                /\ task.last = Exited(<< 0 >>)

\* run_hooks returned Ok(0) for two detected ecosystems (go.mod and one
\* .cabal file), each closure having run its two hooks.
C36_Witness ==
    /\ call = "run_hooks"
    /\ pc = "done"
    /\ ret = Ok(0)
    /\ l = << "Language::Haskell", "Language::Go" >>
    /\ \A t \in DOMAIN tasks : Cardinality(Exits(tasks[t])) = 2

(***************************************************************************)
(* C37                                                                     *)
(***************************************************************************)
UnknownHooks(hooks) ==
    { k \in DOMAIN hooks : hooks[k].language = "Language::Unknown" }

\* C37: verify decides on its early return from the first hook alone.  When
\* the first hook's language is Unknown, no hook of the list is run, those
\* of another language included: nothing is spawned, no log file is
\* created, and verify returns Ok((true, 0)) unless creating the log root
\* failed.  When the first hook's language is not Unknown, a later Unknown
\* hook is skipped: it is never spawned, gets no log file and no report
\* line, and status holds one result per hook that is not Unknown, so the
\* skipped hooks do not enter all_succeeded.
C37_UnknownFirstReturnsUnknownLaterSkipped ==
    \A t \in DOMAIN tasks :
        LET task == tasks[t] IN
        task.hooks # << >> =>
            IF first_lang(task) = "Language::Unknown"
            THEN /\ Attempted(task) = {}
                 /\ CreatedPaths(task) = {}
                 /\ task.status = << >>
                 /\ ReturnedOk(task) => task.res = Ok(<< TRUE, 0 >>)
            ELSE /\ Attempted(task) \cap UnknownHooks(task.hooks) = {}
                 /\ Reported(task) \cap UnknownHooks(task.hooks) = {}
                 /\ \A h \in UnknownHooks(task.hooks) : CreatedFor(task, h) = {}
                 /\ \A h \in UnknownHooks(task.hooks) :
                       (\A k \in DOMAIN task.hooks \ UnknownHooks(task.hooks) :
                            task.hooks[k].file # task.hooks[h].file)
                       => /\ out_file(first_lang(task), task.hooks[h]) \notin DOMAIN files
                          /\ err_file(first_lang(task), task.hooks[h]) \notin DOMAIN files
                 /\ ReturnedOk(task) =>
                       /\ Len(task.status) =
                             Len(task.hooks) - Cardinality(UnknownHooks(task.hooks))
                       /\ Reported(task) = DOMAIN task.hooks \ UnknownHooks(task.hooks)
                       /\ task.res.val[1] = all_succeeded(task.status)

\* verify returned Ok(true) on [go test, <Unknown hook>, go list]: the two
\* Go hooks ran and succeeded, the Unknown hook between them was skipped.
C37_Witness ==
    /\ call = "verify"
    /\ arg = << Hook_go[1], UnknownHook, Hook_go[2] >>
    /\ ReturnedOk(tasks[1])
    /\ tasks[1].res.val[1]
    /\ Events(tasks[1], "skip") # {}
    /\ tasks[1].status = << TRUE, TRUE >>
    /\ Cardinality(DOMAIN files) = 4

(***************************************************************************)
(* C38                                                                     *)
(***************************************************************************)
\* A closure enters verify only from its start, and never starts again.
VerifyEnteredOnce(t) ==
    /\ t \in DOMAIN tasks'
    /\ (tasks[t].pc # "verify" /\ tasks'[t].pc = "verify") => tasks[t].pc = "idle"
    /\ tasks[t].pc # "idle" => tasks'[t].pc # "idle"
    /\ tasks[t].pc = "done" => tasks'[t] = tasks[t]

\* C38: run_hooks starts one closure per element of the detected sequence,
\* each closure calls verify once, and the results it collects hold one
\* pair per element of the detected sequence, at the element's position:
\* the element's language and what that closure's verify returned, in
\* whatever order the closures ran and finished.
C38_ResultsInDetectionOrder ==
    /\ [](call = "run_hooks" /\ pc # "start" =>
            /\ Len(tasks) = Len(l)
            /\ \A k \in DOMAIN l : tasks[k].lang = l[k])
    /\ [](call = "run_hooks" /\ pc \in { "collected", "done" } =>
            /\ Len(results) = Len(l)
            /\ \A k \in DOMAIN l :
                  /\ results[k][1] = l[k]
                  /\ tasks[k].pc = "done"
                  /\ tasks[k].res # None
                  /\ results[k][2] = tasks[k].res)
    /\ [][call = "run_hooks" => \A t \in DOMAIN tasks : VerifyEnteredOnce(t)]_vars

\* Haskell and Go were detected, the Haskell closure's verify returned false
\* and the Go closure's true, and the results hold them in that order.
C38_Witness ==
    /\ call = "run_hooks"
    /\ pc = "done"
    /\ l = << "Language::Haskell", "Language::Go" >>
    /\ Len(results) = 2
    /\ results[1][1] = "Language::Haskell"
    /\ results[1][2].kind = "Ok" /\ ~ results[1][2].val[1]
    /\ results[2][1] = "Language::Go"
    /\ results[2][2].kind = "Ok" /\ results[2][2].val[1]

====
